---- MODULE Spec2Model ----
(***************************************************************************)
(* Verification model of the crop recommendation core of the farm planner  *)
(* (src/src/rules.py, calc.py, sanity.py, price_provider.py,               *)
(* price_validation.py, planner.py).                                       *)
(*                                                                         *)
(* Conventions                                                             *)
(*  - Python floats are modelled as exact rationals <<n, d>> (d > 0, in    *)
(*    lowest terms); binary rounding error of float arithmetic is not      *)
(*    modelled.  round(x, 2) is modelled by Round2.                        *)
(*  - Crop and group names are written without diacritics:                 *)
(*    "Kviesi" = Kvieši, "Miezi" = Mieži, "Ellaugi" = Eļļaugi,             *)
(*    "Paksaugi" = Pākšaugi, "Darzeni" = Dārzeņi, "Kartupeli" = Kartupeļi. *)
(*  - None is the Python None.                                             *)
(***************************************************************************)
EXTENDS Integers, Sequences, FiniteSets, TLC

VARIABLES plantings, prices_csv, pc, call, result

vars == <<plantings, prices_csv, pc, call, result>>

None == "None"

(***************************************************************************)
(* Exact rational arithmetic standing for float arithmetic.                *)
(***************************************************************************)
Abs(i) == IF i < 0 THEN -i ELSE i

RECURSIVE GCD(_, _)
GCD(a, b) == IF b = 0 THEN a ELSE GCD(b, a % b)

Norm(n, d) ==
    LET g == GCD(Abs(n), d) IN <<n \div g, d \div g>>

R(i) == <<i, 1>>

Frac(n, d) == Norm(n, d)

RAdd(x, y) == Norm(x[1] * y[2] + y[1] * x[2], x[2] * y[2])

RSub(x, y) == Norm(x[1] * y[2] - y[1] * x[2], x[2] * y[2])

RMul(x, y) == Norm(x[1] * y[1], x[2] * y[2])

RDivInt(x, k) == Norm(x[1], x[2] * k)

RLt(x, y) == x[1] * y[2] < y[1] * x[2]

RLe(x, y) == x[1] * y[2] <= y[1] * x[2]

RGt(x, y) == RLt(y, x)

RECURSIVE RSum(_)
RSum(s) == IF s = <<>> THEN R(0) ELSE RAdd(Head(s), RSum(Tail(s)))

\* round(x, 2): nearest multiple of 1/100, ties to the even multiple
Round2(x) ==
    LET num == 100 * x[1]
        fl  == num \div x[2]
        rem == num - fl * x[2]
        k   == IF 2 * rem < x[2] THEN fl
               ELSE IF 2 * rem > x[2] THEN fl + 1
               ELSE IF fl % 2 = 0 THEN fl ELSE fl + 1
    IN  Norm(k, 100)

(***************************************************************************)
(* Sequence helpers (Python list comprehensions and membership tests).     *)
(***************************************************************************)
Range(s) == {s[i] : i \in 1..Len(s)}

RECURSIVE FilterSeq(_, _)
\* [x for x in s if x in keep]
FilterSeq(s, keep) ==
    IF s = <<>> THEN <<>>
    ELSE IF Head(s) \in keep THEN <<Head(s)>> \o FilterSeq(Tail(s), keep)
    ELSE FilterSeq(Tail(s), keep)

(***************************************************************************)
(* Bounds of the explored inputs.                                          *)
(***************************************************************************)
NumYears == 5

MaxHistory == 2

Years == 2023..(2022 + NumYears)

FieldIds == {1, 2}

(***************************************************************************)
(* rules.py                                                                *)
(***************************************************************************)
PlantingRecord(f, y, c) == [field_id |-> f, year |-> y, crop |-> c]

rapeseed_variants == <<"Rapsis", "Rapsis (ziemas)", "Rapsis (vasaras)">>

RECURSIVE InsertByYearDesc(_, _)
InsertByYearDesc(p, s) ==
    IF s = <<>> THEN <<p>>
    ELSE IF Head(s).year >= p.year THEN <<Head(s)>> \o InsertByYearDesc(p, Tail(s))
    ELSE <<p>> \o s

RECURSIVE SortByYearDesc(_)
\* list.sort(key=year, reverse=True), stable
SortByYearDesc(s) ==
    IF s = <<>> THEN <<>>
    ELSE InsertByYearDesc(s[Len(s)], SortByYearDesc(SubSeq(s, 1, Len(s) - 1)))

\* variant of rule 1 that compares with > in place of >=
RepeatForbidden_strict(field_history, target_year) ==
    {field_history[i].crop : i \in {j \in 1..Len(field_history) :
                                      field_history[j].year > target_year - 1}}

\* rule 1: crops of the records that forbid an immediate repeat
RepeatForbidden(field_history, target_year) ==
    {field_history[i].crop : i \in {j \in 1..Len(field_history) :
                                      field_history[j].year >= target_year - 1}}

\* variant of rule 2 whose window is the previous year only
RapeseedYears_previous_year(field_history, target_year) ==
    {field_history[i].year : i \in {j \in 1..Len(field_history) :
                                      /\ field_history[j].crop \in Range(rapeseed_variants)
                                      /\ field_history[j].year >= target_year - 1}}

\* rule 2: years of the rapeseed records inside the rapeseed window
RapeseedYears(field_history, target_year) ==
    {field_history[i].year : i \in {j \in 1..Len(field_history) :
                                      /\ field_history[j].crop \in Range(rapeseed_variants)
                                      /\ field_history[j].year >= target_year - 3}}

\* variant that keeps the records of crops outside the candidate list
get_allowed_crops_keep_unknown(planting_history, available_crops, target_year, field_id) ==
    LET own == SortByYearDesc(SelectSeq(planting_history,
                                        LAMBDA p : p.field_id = field_id))
        valid_crops_set == Range(available_crops)
        field_history == own
        forbidden1 == RepeatForbidden(field_history, target_year)
        forbidden2 == IF RapeseedYears(field_history, target_year) # {}
                      THEN Range(rapeseed_variants) \cap valid_crops_set
                      ELSE {}
        forbidden_crops == forbidden1 \cup forbidden2
    IN  FilterSeq(available_crops, Range(available_crops) \ forbidden_crops)

\* rules.py 10-64: the candidates the rotation rules leave for the field
get_allowed_crops(planting_history, available_crops, target_year, field_id) ==
    LET own == SortByYearDesc(SelectSeq(planting_history,
                                        LAMBDA p : p.field_id = field_id))
        valid_crops_set == Range(available_crops)
        field_history == SelectSeq(own, LAMBDA p : p.crop \in valid_crops_set)
        forbidden1 == RepeatForbidden(field_history, target_year)
        forbidden2 == IF RapeseedYears(field_history, target_year) # {}
                      THEN Range(rapeseed_variants) \cap valid_crops_set
                      ELSE {}
        forbidden_crops == forbidden1 \cup forbidden2
    IN  FilterSeq(available_crops, Range(available_crops) \ forbidden_crops)

(***************************************************************************)
(* models.py: CropModel, FieldModel.  An Optional[float] is <<>> (None) or *)
(* a rational; a yield table is a function from the soils it has a key for *)
(* to rationals; ph_range is <<>> (None) or <<min, max>>.                  *)
(***************************************************************************)
NoneR == <<>>

CropModel(name, group, sow_months, yield_t_ha, cost_eur_ha, price_eur_t,
          is_market_crop, ph_range) ==
    [name |-> name, group |-> group, sow_months |-> sow_months,
     yield_t_ha |-> yield_t_ha, cost_eur_ha |-> cost_eur_ha,
     price_eur_t |-> price_eur_t, is_market_crop |-> is_market_crop,
     ph_range |-> ph_range]

FieldModel(id, area_ha, soil, rent_eur_ha, ph) ==
    [id |-> id, area_ha |-> area_ha, soil |-> soil,
     rent_eur_ha |-> rent_eur_ha, ph |-> ph]

(***************************************************************************)
(* price_provider.py.  prices_csv is a function from the crop names that   *)
(* have a row to the row's raw price_eur_t (NoneR: a value float() rejects)*)
(* base_catalog is the list of the entries of data/crops.json that         *)
(* _load_base_catalog keeps: [name, group, price_eur_t].                   *)
(***************************************************************************)
\* float(raw) succeeds
IsNumber(raw) == raw # NoneR

RECURSIVE GroupPriceValues(_, _, _)
\* the list `values` built by the loop of _group_average_price
GroupPriceValues(target_group, csv, base_catalog) ==
    IF base_catalog = <<>> THEN <<>>
    ELSE
        LET info == Head(base_catalog)
            rest == GroupPriceValues(target_group, csv, Tail(base_catalog))
            csv_value == IF info.name \in DOMAIN csv /\ IsNumber(csv[info.name])
                         THEN csv[info.name] ELSE NoneR
            price_value == IF csv_value # NoneR THEN csv_value
                           ELSE IF IsNumber(info.price_eur_t) /\ RGt(info.price_eur_t, R(0))
                                THEN info.price_eur_t
                                ELSE NoneR
        IN  IF info.group # target_group THEN rest
            ELSE IF price_value # NoneR THEN <<price_value>> \o rest
            ELSE rest

_group_average_price(target_group, csv, base_catalog) ==
    LET values == GroupPriceValues(target_group, csv, base_catalog)
    IN  IF values = <<>> THEN NoneR
        ELSE RDivInt(RSum(values), Len(values))

PriceInfo(price, source_label, confidence) ==
    [price |-> price, source_label |-> source_label, confidence |-> confidence]

\* variant of get_price_for_crop that tries the catalog price before the
\* LV price table
get_price_for_crop_catalog_first(crop, csv, base_catalog) ==
    IF IsNumber(crop.price_eur_t) /\ RGt(crop.price_eur_t, R(0))
    THEN PriceInfo(crop.price_eur_t, "Kulturu katalogs", "medium")
    ELSE IF crop.name \in DOMAIN csv /\ IsNumber(csv[crop.name])
    THEN PriceInfo(csv[crop.name], "LV cenu fails", "high")
    ELSE LET avg_price == _group_average_price(crop.group, csv, base_catalog)
         IN  IF avg_price # NoneR
             THEN PriceInfo(avg_price, "Grupas videja cena", "low")
             ELSE PriceInfo(R(0), "Grupas videja cena", "low")

get_price_for_crop(crop, csv, base_catalog) ==
    IF crop.name \in DOMAIN csv /\ IsNumber(csv[crop.name])
    THEN PriceInfo(csv[crop.name], "LV cenu fails", "high")
    ELSE IF IsNumber(crop.price_eur_t) /\ RGt(crop.price_eur_t, R(0))
    THEN PriceInfo(crop.price_eur_t, "Kulturu katalogs", "medium")
    ELSE LET avg_price == _group_average_price(crop.group, csv, base_catalog)
         IN  IF avg_price # NoneR
             THEN PriceInfo(avg_price, "Grupas videja cena", "low")
             ELSE PriceInfo(R(0), "Grupas videja cena", "low")

(***************************************************************************)
(* calc.py                                                                 *)
(***************************************************************************)
\* SoilType codes, in the order of the enum
SoilCodes == <<"smilts", "malaina", "kudra", "mitra">>

RECURSIVE PositiveYields(_, _)
\* [v for v in crop.yield_t_ha.values() if v is not None and v > 0]
PositiveYields(yield_t_ha, soils) ==
    IF soils = <<>> THEN <<>>
    ELSE LET rest == PositiveYields(yield_t_ha, Tail(soils))
         IN  IF Head(soils) \in DOMAIN yield_t_ha /\ RGt(yield_t_ha[Head(soils)], R(0))
             THEN <<yield_t_ha[Head(soils)]>> \o rest
             ELSE rest

ProfitCalculationResult(revenue_per_ha, cost_per_ha, area_ha, yield_fallback_used) ==
    LET profit_per_ha == RSub(revenue_per_ha, cost_per_ha)
    IN  [revenue_per_ha |-> revenue_per_ha,
         revenue_total  |-> RMul(revenue_per_ha, area_ha),
         cost_per_ha    |-> cost_per_ha,
         cost_total     |-> RMul(cost_per_ha, area_ha),
         profit_per_ha  |-> profit_per_ha,
         profit_total   |-> RMul(profit_per_ha, area_ha),
         yield_fallback_used |-> yield_fallback_used]

\* variant of calculate_profit that leaves the rent out of cost_per_ha
calculate_profit_no_rent(field, crop, rent_eur_ha) ==
    LET exact  == field.soil \in DOMAIN crop.yield_t_ha
        values == PositiveYields(crop.yield_t_ha, SoilCodes)
        yield_t_ha ==
            IF exact
            THEN IF RLe(crop.yield_t_ha[field.soil], R(0)) THEN R(0)
                 ELSE crop.yield_t_ha[field.soil]
            ELSE IF values # <<>> THEN RDivInt(RSum(values), Len(values))
            ELSE R(0)
        price_eur_t == IF crop.price_eur_t # NoneR /\ RGt(crop.price_eur_t, R(0))
                       THEN crop.price_eur_t ELSE R(0)
        cost_eur_ha == IF RGt(crop.cost_eur_ha, R(0)) THEN crop.cost_eur_ha ELSE R(0)
    IN  ProfitCalculationResult(RMul(yield_t_ha, price_eur_t), cost_eur_ha,
                                field.area_ha, ~exact)

calculate_profit(field, crop, rent_eur_ha) ==
    LET exact  == field.soil \in DOMAIN crop.yield_t_ha
        values == PositiveYields(crop.yield_t_ha, SoilCodes)
        yield_t_ha ==
            IF exact
            THEN IF RLe(crop.yield_t_ha[field.soil], R(0)) THEN R(0)
                 ELSE crop.yield_t_ha[field.soil]
            ELSE IF values # <<>> THEN RDivInt(RSum(values), Len(values))
            ELSE R(0)
        price_eur_t == IF crop.price_eur_t # NoneR /\ RGt(crop.price_eur_t, R(0))
                       THEN crop.price_eur_t ELSE R(0)
        cost_eur_ha == IF RGt(crop.cost_eur_ha, R(0)) THEN crop.cost_eur_ha ELSE R(0)
    IN  ProfitCalculationResult(RMul(yield_t_ha, price_eur_t),
                                RAdd(cost_eur_ha, rent_eur_ha),
                                field.area_ha, ~exact)

(***************************************************************************)
(* sanity.py, price_validation.py                                          *)
(***************************************************************************)
validate_crop_numbers(crop, field_soil) ==
    LET yield_too_high ==
            /\ field_soil \in DOMAIN crop.yield_t_ha
            /\ crop.group \in {"Graudaugi", "Ellaugi", "Paksaugi"}
            /\ RGt(crop.yield_t_ha[field_soil], R(20))
        price_too_high == crop.price_eur_t # NoneR /\ RGt(crop.price_eur_t, R(1200))
        cost_too_high  == RGt(crop.cost_eur_ha, R(3000))
    IN  (IF yield_too_high THEN <<"yield_too_high">> ELSE <<>>)
        \o (IF price_too_high THEN <<"price_too_high">> ELSE <<>>)
        \o (IF cost_too_high THEN <<"cost_too_high">> ELSE <<>>)

\* group of the first entry of data/crops.json with this name, or None
_get_crop_group(crop_name, base_catalog) ==
    LET hits == SelectSeq(base_catalog, LAMBDA e : e.name = crop_name)
    IN  IF hits = <<>> THEN None ELSE Head(hits).group

\* <<min, max>> in EUR/t, or <<>> for a group without a range
_get_price_range_for_group(group) ==
    CASE group = "Graudaugi" -> <<R(80), R(500)>>
      [] group = "Ellaugi"   -> <<R(200), R(900)>>
      [] group = "Paksaugi"  -> <<R(150), R(800)>>
      [] group = "Darzeni"   -> <<R(50), R(300)>>
      [] OTHER               -> <<>>

\* the "valid" entry of the returned dict
validate_price(crop_name, price_eur_t, base_catalog) ==
    LET crop_group  == _get_crop_group(crop_name, base_catalog)
        price_range == _get_price_range_for_group(crop_group)
    IN  IF crop_group = None THEN TRUE
        ELSE IF price_range = <<>> THEN TRUE
        ELSE RLe(price_range[1], price_eur_t) /\ RLe(price_eur_t, price_range[2])

(***************************************************************************)
(* prices.py: load_prices_with_fallback.  The result maps a crop name of   *)
(* data/crops.json to its price: the LV table price when the table has a   *)
(* row for it, else the catalog price when that is neither None nor 0.     *)
(***************************************************************************)
load_prices_with_fallback(csv, base_catalog) ==
    LET entry(n) == LET hits == SelectSeq(base_catalog, LAMBDA e : e.name = n)
                    IN  hits[Len(hits)]
        names == {base_catalog[i].name : i \in 1..Len(base_catalog)}
        priced == {n \in names : \/ n \in DOMAIN csv
                                 \/ (entry(n).price_eur_t # NoneR /\ entry(n).price_eur_t # R(0))}
    IN  [n \in priced |-> IF n \in DOMAIN csv THEN csv[n] ELSE entry(n).price_eur_t]

(***************************************************************************)
(* planner.py: recommend_for_field.                                        *)
(*                                                                         *)
(* A catalog (crops_dict) is the list of its CropModel values in dict      *)
(* order.  env holds what the function reads from files: prices_csv        *)
(* (load_prices_csv), base_catalog (data/crops.json) and market_prices     *)
(* (get_price_map).  opts holds the keyword arguments.  The risk metadata  *)
(* and the cover crop suggestion do not influence any other output and are *)
(* left out.                                                               *)
(***************************************************************************)
CropNames(crops) == [i \in 1..Len(crops) |-> crops[i].name]

Lookup(crops, name) == CHOOSE c \in Range(crops) : c.name = name

RDiv(x, y) == IF y[1] < 0 THEN Norm(-(x[1] * y[2]), x[2] * (-y[1]))
              ELSE Norm(x[1] * y[2], x[2] * y[1])

\* planner.py 570-598
WorkingCropsDict(crops_dict, use_market_prices, env) ==
    IF ~use_market_prices THEN crops_dict
    ELSE
        LET prices_with_fallback ==
                load_prices_with_fallback(env.prices_csv, env.base_catalog)
            new_price(crop) ==
                LET fallback_price ==
                        IF crop.name \in DOMAIN prices_with_fallback
                        THEN prices_with_fallback[crop.name]
                        ELSE IF crop.price_eur_t # NoneR THEN crop.price_eur_t
                        ELSE R(0)
                IN  IF crop.name \in DOMAIN env.market_prices
                    THEN env.market_prices[crop.name]
                    ELSE fallback_price
        IN  [i \in 1..Len(crops_dict) |->
                CropModel(crops_dict[i].name, crops_dict[i].group,
                          crops_dict[i].sow_months, crops_dict[i].yield_t_ha,
                          crops_dict[i].cost_eur_ha, new_price(crops_dict[i]),
                          TRUE, crops_dict[i].ph_range)]

\* planner.py 618-642: names that pass the sow-month and sanity checks
FilteredCandidates(working, field) ==
    LET ok(c) ==
            /\ c.sow_months # <<>>
            /\ LET warnings == Range(validate_crop_numbers(c, field.soil))
               IN  "yield_too_high" \notin warnings /\ "price_too_high" \notin warnings
    IN  CropNames(SelectSeq(working, ok))

\* planner.py 649-691: the vegetable, allowed_groups and group filters
FilteredByVegetables(working, filtered_candidates, opts) ==
    SelectSeq(filtered_candidates,
              LAMBDA n : ~(~opts.include_vegetables /\ Lookup(working, n).group = "Darzeni"))

FilteredByAllowedGroups(working, filtered_by_vegetables, opts) ==
    IF opts.allowed_groups # <<>>
    THEN SelectSeq(filtered_by_vegetables,
                   LAMBDA n : Lookup(working, n).group \in Range(opts.allowed_groups))
    ELSE filtered_by_vegetables

FilteredByGroup(working, filtered_by_allowed_groups, opts) ==
    IF opts.crop_group_filter # None
    THEN SelectSeq(filtered_by_allowed_groups,
                   LAMBDA n : Lookup(working, n).group = opts.crop_group_filter)
    ELSE filtered_by_allowed_groups

\* planner.py 653-679
ExcludedByFilter(working, filtered_candidates, opts) ==
    LET veg == SelectSeq(filtered_candidates,
                         LAMBDA n : ~opts.include_vegetables
                                    /\ Lookup(working, n).group = "Darzeni")
        by_veg == FilteredByVegetables(working, filtered_candidates, opts)
    IN  IF opts.allowed_groups # <<>>
        THEN veg \o SelectSeq(by_veg,
                      LAMBDA n : Lookup(working, n).group \notin Range(opts.allowed_groups))
        ELSE veg

\* planner.py 698: the "favorites + group" branch is taken
PlusGroupMode(opts) ==
    /\ opts.favorite_crops_filter # {}
    /\ opts.favorites_plus_group
    /\ opts.crop_group_filter # None

\* planner.py 701-703: the elements of set(group_crops + favorite_crops)
PlusGroupSet(working, field, opts) ==
    LET filtered_candidates == FilteredCandidates(working, field)
        filtered_by_group ==
            FilteredByGroup(working,
                FilteredByAllowedGroups(working,
                    FilteredByVegetables(working, filtered_candidates, opts), opts), opts)
    IN  Range(filtered_by_group)
        \cup (Range(filtered_candidates) \cap opts.favorite_crops_filter)

\* the orders in which a Python set of strings can be iterated
SetOrders(S) ==
    {p \in [1..Cardinality(S) -> S] : \A i, j \in 1..Cardinality(S) : p[i] = p[j] => i = j}

\* planner.py 693-708; set_order is the iteration order of the set of line 703
FilteredByFavorites(working, field, opts, set_order) ==
    LET filtered_by_group ==
            FilteredByGroup(working,
                FilteredByAllowedGroups(working,
                    FilteredByVegetables(working, FilteredCandidates(working, field), opts),
                    opts), opts)
    IN  IF opts.favorite_crops_filter = {} THEN filtered_by_group
        ELSE IF PlusGroupMode(opts) THEN set_order
        ELSE SelectSeq(filtered_by_group, LAMBDA n : n \in opts.favorite_crops_filter)

\* variant that reports the favorites filter as used whenever one is given
UsedFavoritesFilter_given(opts, filtered_by_favorites) ==
    opts.favorite_crops_filter # {}

\* planner.py 694-708: used_favorites_filter
UsedFavoritesFilter(opts, filtered_by_favorites) ==
    IF opts.favorite_crops_filter = {} THEN FALSE
    ELSE IF PlusGroupMode(opts) THEN TRUE
    ELSE filtered_by_favorites # <<>>

\* planner.py 819-824: the resolved price and whether it counts as a price
HasPrice(crop, env) ==
    RGt(get_price_for_crop(crop, env.prices_csv, env.base_catalog).price, R(0))

\* variant of the pH test whose range bounds are themselves outside
PhOutsideRange_inclusive(field, crop) ==
    /\ field.ph # NoneR
    /\ crop.ph_range # NoneR
    /\ (RLe(field.ph, crop.ph_range[1]) \/ RLe(crop.ph_range[2], field.ph))

\* planner.py 868-874: the pH penalty applies
PhOutsideRange(field, crop) ==
    /\ field.ph # NoneR
    /\ crop.ph_range # NoneR
    /\ (RLt(field.ph, crop.ph_range[1]) \/ RGt(field.ph, crop.ph_range[2]))

\* planner.py 876-877: profit_total after the 10 % penalty
PenalizedProfit(profit_total) ==
    RSub(profit_total, RMul(profit_total, Frac(10, 100)))

\* planner.py 838-885: the tuple appended to crop_profits for one crop
ScoreCrop(field, crop, env) ==
    LET price_value == get_price_for_crop(crop, env.prices_csv, env.base_catalog).price
        has_price == RGt(price_value, R(0))
        crop_with_price ==
            CropModel(crop.name, crop.group, crop.sow_months, crop.yield_t_ha,
                      crop.cost_eur_ha, IF has_price THEN price_value ELSE R(0),
                      crop.is_market_crop, crop.ph_range)
        calc_result == calculate_profit(field, crop_with_price, field.rent_eur_ha)
        penalized == PhOutsideRange(field, crop)
        profit_total == IF penalized THEN PenalizedProfit(calc_result.profit_total)
                        ELSE calc_result.profit_total
    IN  [name |-> crop.name,
         profit_total |-> profit_total,
         group |-> crop.group,
         sow_months |-> crop.sow_months,
         is_market |-> crop.is_market_crop,
         calc_result |-> calc_result,
         ph_note |-> IF penalized
                     THEN <<field.ph, crop.ph_range[1], crop.ph_range[2]>>
                     ELSE NoneR]

\* variant of the scoring loop that never skips a crop without a price
ScoreStatus_keep_unpriced(crop, opts, env) ==
    IF ~HasPrice(crop, env)
    THEN "scored"
    ELSE IF validate_price(crop.name,
                           get_price_for_crop(crop, env.prices_csv, env.base_catalog).price,
                           env.base_catalog)
         THEN "scored"
         ELSE "price_invalid"

\* planner.py 823-836: what the scoring loop does with an allowed crop
ScoreStatus(crop, opts, env) ==
    IF ~HasPrice(crop, env)
    THEN IF opts.include_crops_without_price THEN "scored" ELSE "no_price"
    ELSE IF validate_price(crop.name,
                           get_price_for_crop(crop, env.prices_csv, env.base_catalog).price,
                           env.base_catalog)
         THEN "scored"
         ELSE "price_invalid"

RECURSIVE InsertByProfitDesc(_, _)
InsertByProfitDesc(e, s) ==
    IF s = <<>> THEN <<e>>
    ELSE IF RLe(e.profit_total, Head(s).profit_total)
         THEN <<Head(s)>> \o InsertByProfitDesc(e, Tail(s))
         ELSE <<e>> \o s

RECURSIVE SortByProfitDesc(_)
\* planner.py 953: crop_profits.sort(key=profit_total, reverse=True), stable
SortByProfitDesc(s) ==
    IF s = <<>> THEN <<>>
    ELSE InsertByProfitDesc(s[Len(s)], SortByProfitDesc(SubSeq(s, 1, Len(s) - 1)))

\* planner.py 969-983
CandidateItem(e) ==
    [name |-> e.name,
     profit_total |-> Round2(e.profit_total),
     profit_per_ha |-> Round2(e.calc_result.profit_per_ha),
     sow_months |-> e.sow_months,
     revenue_total |-> Round2(e.calc_result.revenue_total),
     cost_total |-> Round2(e.calc_result.cost_total),
     revenue_per_ha |-> Round2(e.calc_result.revenue_per_ha),
     cost_per_ha |-> Round2(e.calc_result.cost_per_ha),
     is_market_crop |-> e.is_market,
     ph_note |-> e.ph_note]

\* planner.py 996-1010
Top3Item(e) ==
    [name |-> e.name,
     profit |-> Round2(e.profit_total),
     profit_per_ha |-> Round2(e.calc_result.profit_per_ha),
     profit_total |-> Round2(e.profit_total),
     ph_note |-> e.ph_note]

\* planner.py 1020-1034
LowerItem(e, field) ==
    [name |-> e.name,
     profit |-> Round2(e.profit_total),
     profit_per_ha |-> Round2(IF RGt(field.area_ha, R(0))
                              THEN RDiv(e.profit_total, field.area_ha) ELSE R(0)),
     profit_total |-> Round2(e.profit_total),
     ph_note |-> e.ph_note]

MapSeq(s, Op(_)) == [i \in 1..Len(s) |-> Op(s[i])]

\* planner.py 727-739: the message of the no-allowed-crops outcome
NoAllowedMessage(opts) ==
    LET filter_parts ==
            (IF opts.crop_group_filter # None THEN <<"grupa">> ELSE <<>>)
            \o (IF opts.favorite_crops_filter # {}
                THEN IF opts.favorites_plus_group
                     THEN <<"favoritos + izveletaja grupa">>
                     ELSE <<"favoritos">>
                ELSE <<>>)
    IN  IF filter_parts # <<>>
        THEN <<"Izveletaja", filter_parts, "nav atlautu kulturu pec rotacijas noteikumiem.">>
        ELSE <<"Nav atlautu kulturu pec sejumu rotacijas noteikumiem.">>

RecommendResult(best_crop, profit_total, profit_per_ha, sow_months, top3,
                explanation, forbidden_crops, lower_profit_crops,
                crops_without_price, excluded_by_price_validation,
                used_favorites_filter, excluded_by_filter,
                excluded_by_incomplete_data, candidates) ==
    [best_crop |-> best_crop, best_profit |-> profit_total,
     profit_total |-> profit_total, profit_per_ha |-> profit_per_ha,
     sow_months |-> sow_months, top3 |-> top3, explanation |-> explanation,
     forbidden_crops |-> forbidden_crops,
     lower_profit_crops |-> lower_profit_crops,
     crops_without_price |-> crops_without_price,
     excluded_by_price_validation |-> excluded_by_price_validation,
     used_favorites_filter |-> used_favorites_filter,
     excluded_by_filter |-> excluded_by_filter,
     excluded_by_incomplete_data |-> excluded_by_incomplete_data,
     candidates |-> candidates]

\* variant of the scoring loop that iterates over every crop of the catalog
CropProfits_all(field, working, allowed_crops, opts, env) ==
    MapSeq(SelectSeq(CropNames(working),
                     LAMBDA n : ScoreStatus(Lookup(working, n), opts, env) = "scored"),
           LAMBDA n : ScoreCrop(field, Lookup(working, n), env))

\* planner.py 807-885: crop_profits before it is sorted
CropProfits(field, working, allowed_crops, opts, env) ==
    MapSeq(SelectSeq(allowed_crops,
                     LAMBDA n : ScoreStatus(Lookup(working, n), opts, env) = "scored"),
           LAMBDA n : ScoreCrop(field, Lookup(working, n), env))

\* variant of the ranking that leaves crop_profits in scoring order
RankCropProfits_unsorted(crop_profits) == crop_profits

\* planner.py 953-954: the sorted list; its head is the best crop
RankCropProfits(crop_profits) == SortByProfitDesc(crop_profits)

\* planner.py 887-1214: the result once crop_profits is sorted
RecommendRanked(field, opts, env, working, filtered_candidates, filtered_by_favorites, allowed_crops, crop_profits) ==
    LET excluded_by_incomplete_data ==
            SelectSeq(CropNames(working), LAMBDA n : n \notin Range(filtered_candidates))
        excluded_by_filter == ExcludedByFilter(working, filtered_candidates, opts)
        used_favorites_filter == UsedFavoritesFilter(opts, filtered_by_favorites)
        forbidden_crops ==
            SelectSeq(filtered_by_favorites,
                      LAMBDA n : /\ n \notin Range(allowed_crops)
                                 /\ ~(~opts.include_vegetables
                                      /\ Lookup(working, n).group = "Darzeni"))
        crops_without_price ==
            SelectSeq(allowed_crops, LAMBDA n : ~HasPrice(Lookup(working, n), env))
        excluded_by_price_validation ==
            SelectSeq(allowed_crops,
                      LAMBDA n : ScoreStatus(Lookup(working, n), opts, env) = "price_invalid")
        best == crop_profits[1]
        keep_veg(e) == ~(~opts.include_vegetables /\ e.group = "Darzeni")
    IN  IF allowed_crops = <<>>
        THEN RecommendResult(None, R(0), R(0), <<>>, <<>>, NoAllowedMessage(opts),
                             <<>>, <<>>, <<>>, <<>>, used_favorites_filter,
                             excluded_by_filter, excluded_by_incomplete_data, <<>>)
        ELSE IF crop_profits = <<>>
        THEN RecommendResult(None, R(0), R(0), <<>>, <<>>,
                             IF crops_without_price # <<>> /\ ~opts.include_crops_without_price
                             THEN <<"Nav atlautu kulturu ar tirgus cenu.">>
                             ELSE <<"Nav atlautu kulturu ar derigu cenu">>,
                             forbidden_crops, <<>>, crops_without_price,
                             excluded_by_price_validation, FALSE,
                             <<>>, <<>>, <<>>)
        ELSE RecommendResult(best.name, Round2(best.profit_total),
                             Round2(IF RGt(field.area_ha, R(0))
                                    THEN RDiv(best.profit_total, field.area_ha) ELSE R(0)),
                             best.sow_months,
                             MapSeq(SelectSeq(SubSeq(crop_profits, 1,
                                        IF Len(crop_profits) < 3 THEN Len(crop_profits) ELSE 3),
                                        keep_veg), Top3Item),
                             <<"Ieteikums">>,
                             forbidden_crops,
                             MapSeq(SelectSeq(SubSeq(crop_profits, 4, Len(crop_profits)),
                                              keep_veg),
                                    LAMBDA e : LowerItem(e, field)),
                             crops_without_price, excluded_by_price_validation,
                             used_favorites_filter, excluded_by_filter,
                             excluded_by_incomplete_data,
                             MapSeq(crop_profits, CandidateItem))

\* planner.py 709-954: the rotation rules and the scoring loop, once the
\* candidate lists are known
RecommendFiltered(field, history, target_year, opts, env, working, filtered_candidates, filtered_by_favorites, allowed_crops) ==
    RecommendRanked(field, opts, env, working, filtered_candidates,
                    filtered_by_favorites, allowed_crops,
                    RankCropProfits(CropProfits(field, working, allowed_crops, opts, env)))

\* planner.py 612-716: the candidate filters, once working_crops_dict is built
RecommendWorking(field, history, target_year, opts, env, set_order, working, filtered_by_favorites) ==
    RecommendFiltered(field, history, target_year, opts, env, working,
                      FilteredCandidates(working, field), filtered_by_favorites,
                      get_allowed_crops(history, filtered_by_favorites, target_year,
                                        field.id))

\* planner.py 483-1214: the steps above on the working copy of the catalog
RecommendOn(field, history, target_year, opts, env, set_order, working) ==
    RecommendWorking(field, history, target_year, opts, env, set_order, working,
                     FilteredByFavorites(working, field, opts, set_order))

\* planner.py 483-1214
recommend_for_field(field, history, crops_dict, target_year, opts, env, set_order) ==
    RecommendOn(field, history, target_year, opts, env, set_order,
                WorkingCropsDict(crops_dict, opts.use_market_prices, env))

(***************************************************************************)
(* Specification SpecRules: get_allowed_crops as a pure function.  Init    *)
(* draws its four arguments, the action applies it.                        *)
(***************************************************************************)
BoundedSeqs(S, n) == UNION {[1..k -> S] : k \in 0..n}

\* crops a history record may name ("Lini" is in no candidate list)
HistoryCrops == {"Kviesi", "Rapsis", "Lini"}

RuleRecords ==
    {PlantingRecord(f, y, c) : f \in FieldIds, y \in Years, c \in HistoryCrops}

\* candidate lists handed to get_allowed_crops, in catalog order
RuleCandidateLists ==
    {FilterSeq(<<"Kviesi", "Rapsis", "Rapsis (ziemas)">>, S) :
        S \in SUBSET {"Kviesi", "Rapsis", "Rapsis (ziemas)"}}

RuleTargetYears == {2022 + NumYears - 1, 2022 + NumYears}

InitRules ==
    /\ plantings = {}
    /\ prices_csv = <<>>
    /\ pc = "ready"
    /\ call \in {[op |-> "get_allowed_crops",
                  planting_history |-> h,
                  available_crops |-> a,
                  target_year |-> t,
                  field_id |-> 1] :
                    h \in BoundedSeqs(RuleRecords, MaxHistory),
                    a \in RuleCandidateLists,
                    t \in RuleTargetYears}
    /\ result = None

GetAllowedCrops ==
    /\ pc = "ready"
    /\ call.op = "get_allowed_crops"
    /\ result' = get_allowed_crops(call.planting_history, call.available_crops,
                                   call.target_year, call.field_id)
    /\ pc' = "done"
    /\ UNCHANGED <<plantings, prices_csv, call>>

NextRules == GetAllowedCrops

SpecRules == InitRules /\ [][NextRules]_vars

RulesDone == pc = "done" /\ call.op = "get_allowed_crops"

\* the records of the call's history that belong to the call's field
OwnRecords ==
    {call.planting_history[i] : i \in {j \in 1..Len(call.planting_history) :
        call.planting_history[j].field_id = call.field_id}}

\* C4: a rapeseed planting on the field in year Y leaves no rapeseed variant
\* in the allowed list for target years Y+1..Y+3, whatever the candidate list;
\* for target year Y+4 with no later rapeseed planting every rapeseed
\* candidate is allowed again.
C4_RapeseedWindow ==
    RulesDone =>
        \A r \in OwnRecords :
            r.crop \in Range(rapeseed_variants) =>
                /\ (call.target_year \in (r.year + 1)..(r.year + 3)) =>
                       Range(result) \cap Range(rapeseed_variants) = {}
                /\ (/\ call.target_year = r.year + 4
                    /\ \A q \in OwnRecords :
                          q.crop \in Range(rapeseed_variants) => q.year <= r.year) =>
                       Range(call.available_crops) \cap Range(rapeseed_variants)
                           \subseteq Range(result)

\* C5: a non-rapeseed candidate is forbidden by the no-repeat rule exactly
\* when the field's history holds a record of it in target_year - 1; records
\* of other years do not forbid it.
C5_RepeatExactlyPreviousYear ==
    RulesDone =>
        \A c \in Range(call.available_crops) \ Range(rapeseed_variants) :
            (c \notin Range(result)) <=>
                (\E r \in OwnRecords : r.crop = c /\ r.year = call.target_year - 1)

\* the records that get_allowed_crops takes into account: those of the call's
\* field whose crop is one of the candidates
CountedRecords ==
    {r \in OwnRecords : r.crop \in Range(call.available_crops)}

PriceCropNames == {"Kviesi", "Miezi", "Rapsis"}

PriceCrops ==
    {CropModel(n, IF n = "Rapsis" THEN "Ellaugi" ELSE "Graudaugi",
               <<4>>, <<>>, R(400), p, TRUE, NoneR) :
        n \in {"Kviesi", "Rapsis"}, p \in {NoneR, R(0), R(210)}}

\* raw price_eur_t values of a row: not a number, negative, zero, positive
RawPrices == {NoneR, R(-5), R(0), R(190)}

PriceTables ==
    UNION {[S -> RawPrices] : S \in SUBSET PriceCropNames}

BaseEntry(name, group, price_eur_t) ==
    [name |-> name, group |-> group, price_eur_t |-> price_eur_t]

BaseCatalogs ==
    {<<>>} \cup
    {<<BaseEntry("Kviesi", "Graudaugi", pk),
       BaseEntry("Miezi", "Graudaugi", pm),
       BaseEntry("Auzas", "Graudaugi", R(150)),
       BaseEntry("Rapsis", "Ellaugi", R(400))>> :
        pk \in {R(0), R(200)}, pm \in {NoneR, R(170)}}

InitPrice ==
    /\ plantings = {}
    /\ prices_csv = <<>>
    /\ pc = "ready"
    /\ call \in {[op |-> "get_price_for_crop", crop |-> c, prices_csv |-> t,
                  base_catalog |-> b] :
                    c \in PriceCrops, t \in PriceTables, b \in BaseCatalogs}
    /\ result = None

GetPriceForCrop ==
    /\ pc = "ready"
    /\ call.op = "get_price_for_crop"
    /\ result' = get_price_for_crop(call.crop, call.prices_csv, call.base_catalog)
    /\ pc' = "done"
    /\ UNCHANGED <<plantings, prices_csv, call>>

NextPrice == GetPriceForCrop

SpecPrice == InitPrice /\ [][NextPrice]_vars

PriceDone == pc = "done" /\ call.op = "get_price_for_crop"

\* tier-1-or-tier-2 prices of the crops of the call's base catalog that share
\* the crop's group, the crop itself left out
PeerPrices ==
    GroupPriceValues(call.crop.group, call.prices_csv,
                     SelectSeq(call.base_catalog,
                               LAMBDA e : e.name # call.crop.name))

\* C6: the price is the table entry of the crop (high); else the catalog
\* price when > 0 (medium); else the mean of the tier-1-or-tier-2 prices of
\* the other crops of the group (low); else 0.0 (low).
C6_PricePriority ==
    PriceDone =>
        LET crop == call.crop
            csv  == call.prices_csv
        IN  IF crop.name \in DOMAIN csv /\ IsNumber(csv[crop.name])
            THEN result.price = csv[crop.name] /\ result.confidence = "high"
            ELSE IF crop.price_eur_t # NoneR /\ RGt(crop.price_eur_t, R(0))
            THEN result.price = crop.price_eur_t /\ result.confidence = "medium"
            ELSE IF PeerPrices # <<>>
            THEN /\ result.price = RDivInt(RSum(PeerPrices), Len(PeerPrices))
                 /\ result.confidence = "low"
            ELSE result.price = R(0) /\ result.confidence = "low"

\* C7: the returned price is present and is >= 0, whatever numbers the
\* price table holds.
C7_PriceTotalNonNegative ==
    PriceDone => result.price # NoneR /\ RLe(R(0), result.price)

(***************************************************************************)
(* Specification SpecProfit: calculate_profit as a pure function of the    *)
(* field, the crop and the rent.                                           *)
(***************************************************************************)
NoYields == [s \in {} |-> R(0)]

ProfitYieldTables ==
    {NoYields,
     [s \in {"malaina"} |-> R(5)],
     [s \in {"smilts", "kudra"} |-> IF s = "smilts" THEN R(3) ELSE R(4)],
     [s \in {"malaina", "smilts"} |-> IF s = "malaina" THEN R(5) ELSE R(3)],
     [s \in {"malaina", "smilts"} |-> IF s = "malaina" THEN R(0) ELSE R(3)]}

ProfitFields ==
    {FieldModel(1, a, s, r, NoneR) :
        a \in {R(10), Frac(9, 2)}, s \in {"malaina", "smilts"}, r \in {R(0), R(50)}}

ProfitCrops ==
    {CropModel("Kviesi", "Graudaugi", <<4>>, y, c, p, m, NoneR) :
        y \in ProfitYieldTables, c \in {R(0), R(400)},
        p \in {NoneR, R(0), R(200)}, m \in BOOLEAN}

InitProfit ==
    /\ plantings = {}
    /\ prices_csv = <<>>
    /\ pc = "ready"
    /\ call \in {[op |-> "calculate_profit", field |-> f, crop |-> c] :
                    f \in ProfitFields, c \in ProfitCrops}
    /\ result = None

CalculateProfit ==
    /\ pc = "ready"
    /\ call.op = "calculate_profit"
    /\ result' = calculate_profit(call.field, call.crop, call.field.rent_eur_ha)
    /\ pc' = "done"
    /\ UNCHANGED <<plantings, prices_csv, call>>

NextProfit == CalculateProfit

SpecProfit == InitProfit /\ [][NextProfit]_vars

ProfitDone == pc = "done" /\ call.op = "calculate_profit"

\* the worked example: 10 ha, yield 5 t/ha on the field's soil, 200 EUR/t,
\* cost 400 EUR/ha, rent 0
ProfitExampleCall ==
    /\ call.field.area_ha = R(10)
    /\ call.field.rent_eur_ha = R(0)
    /\ call.field.soil \in DOMAIN call.crop.yield_t_ha
    /\ call.crop.yield_t_ha[call.field.soil] = R(5)
    /\ call.crop.price_eur_t = R(200)
    /\ call.crop.cost_eur_ha = R(400)

\* the relations every result satisfies, given the yield and the price used
ProfitRelations(yield_used, price_used) ==
    /\ result.revenue_per_ha = RMul(yield_used, price_used)
    /\ result.cost_per_ha = RAdd(call.crop.cost_eur_ha, call.field.rent_eur_ha)
    /\ result.profit_per_ha = RSub(result.revenue_per_ha, result.cost_per_ha)
    /\ result.revenue_total = RMul(result.revenue_per_ha, call.field.area_ha)
    /\ result.cost_total = RMul(result.cost_per_ha, call.field.area_ha)
    /\ result.profit_total = RMul(result.profit_per_ha, call.field.area_ha)
    /\ ProfitExampleCall =>
           result.profit_per_ha = R(600) /\ result.profit_total = R(6000)

\* C8 (as claimed): revenue_per_ha = yield(soil) * price, cost_per_ha =
\* cost + rent, profit_per_ha = revenue - cost, totals = per-ha * area, the
\* example gives 600 and 6000, and a missing price or yield for the soil
\* counts as 0.
C8_ProfitMissingIsZero ==
    ProfitDone =>
        ProfitRelations(
            IF call.field.soil \in DOMAIN call.crop.yield_t_ha
            THEN call.crop.yield_t_ha[call.field.soil] ELSE R(0),
            IF call.crop.price_eur_t # NoneR THEN call.crop.price_eur_t ELSE R(0))

\* C8 (amended): as above, but a missing yield for the soil is replaced by
\* the mean of the crop's positive yields on its other soils (0 when it has
\* none), and a price or a yield for the soil that is not positive counts
\* as 0.
C8_ProfitFormulas ==
    ProfitDone =>
        LET t == call.crop.yield_t_ha
            positive == {s \in DOMAIN t : RGt(t[s], R(0))}
            total == RSum([i \in 1..Len(SoilCodes) |->
                             IF SoilCodes[i] \in positive THEN t[SoilCodes[i]] ELSE R(0)])
        IN  ProfitRelations(
                IF call.field.soil \in DOMAIN t
                THEN (IF call.field.soil \in positive THEN t[call.field.soil] ELSE R(0))
                ELSE IF positive = {} THEN R(0)
                ELSE RDivInt(total, Cardinality(positive)),
                IF call.crop.price_eur_t # NoneR /\ RGt(call.crop.price_eur_t, R(0))
                THEN call.crop.price_eur_t ELSE R(0))

\* witness of C8: the worked example has been computed
C8_Witness == ProfitDone /\ ProfitExampleCall /\ result.profit_total = R(6000)

\* C11: for a crop with is_market_crop = FALSE the computed revenue_per_ha and
\* revenue_total are 0 and profit_per_ha is -(cost_eur_ha + rent_eur_ha),
\* whatever its yield and price.
C11_NonMarketRevenueZero ==
    (ProfitDone /\ ~call.crop.is_market_crop) =>
        /\ result.revenue_per_ha = R(0)
        /\ result.revenue_total = R(0)
        /\ result.profit_per_ha =
               RSub(R(0), RAdd(call.crop.cost_eur_ha, call.field.rent_eur_ha))

(***************************************************************************)
(* Specification Spec: a session of the planner.  The plantings table and  *)
(* the LV price table are the stored state; add_planting and               *)
(* save_price_to_csv change them; a recommendation is computed from the    *)
(* stored state and the request's field, catalog, year and filters, and    *)
(* is then handed back to the caller.                                      *)
(***************************************************************************)
Yields2(s1, y1, s2, y2) == [s \in {s1, s2} |-> IF s = s1 THEN y1 ELSE y2]

Kviesi    == CropModel("Kviesi", "Graudaugi", <<4, 9>>,
                       Yields2("malaina", R(5), "smilts", R(3)),
                       R(400), R(200), TRUE, <<R(6), Frac(15, 2)>>)

Miezi     == CropModel("Miezi", "Graudaugi", <<4>>,
                       [s \in {"malaina"} |-> R(4)],
                       R(300), R(225), TRUE, NoneR)

Rapsis    == CropModel("Rapsis", "Ellaugi", <<8>>,
                       Yields2("malaina", R(3), "smilts", R(2)),
                       R(500), R(450), TRUE, <<R(6), R(7)>>)

RapsisZiemas == CropModel("Rapsis (ziemas)", "Ellaugi", <<8>>,
                       [s \in {"malaina"} |-> Frac(7, 2)],
                       R(550), NoneR, TRUE, NoneR)

Kartupeli == CropModel("Kartupeli", "Darzeni", <<5>>,
                       Yields2("malaina", R(25), "smilts", R(20)),
                       R(2000), R(150), TRUE, NoneR)

Lini      == CropModel("Lini", "Citi", <<5>>,
                       [s \in {"malaina"} |-> R(2)],
                       R(300), NoneR, FALSE, <<R(6), R(7)>>)

Griki     == CropModel("Griki", "Graudaugi", <<5>>,
                       [s \in {"malaina"} |-> R(2)],
                       R(250), R(600), TRUE, NoneR)

Zirni     == CropModel("Zirni", "Paksaugi", <<>>,
                       [s \in {"malaina"} |-> R(3)],
                       R(350), R(250), TRUE, NoneR)

Kukuruza  == CropModel("Kukuruza", "Graudaugi", <<5>>,
                       [s \in {"malaina"} |-> R(25)],
                       R(900), R(180), TRUE, NoneR)

Pupas     == CropModel("Pupas", "Paksaugi", <<4>>,
                       [s \in {"malaina"} |-> R(3)],
                       R(200), R(130), TRUE, NoneR)

\* the catalogs (crops_dict) a request may carry
Catalogs ==
    {<<Kviesi, Miezi, Rapsis, RapsisZiemas, Kartupeli>>,
     <<Kviesi, Lini, Griki, Zirni, Kukuruza, Pupas>>,
     <<Kviesi>>}

\* data/crops.json as _load_base_catalog and _get_crop_group read it
MainBaseCatalog ==
    <<BaseEntry("Kviesi", "Graudaugi", R(200)),
      BaseEntry("Miezi", "Graudaugi", R(225)),
      BaseEntry("Rapsis", "Ellaugi", R(400)),
      BaseEntry("Rapsis (ziemas)", "Ellaugi", NoneR),
      BaseEntry("Kartupeli", "Darzeni", R(150)),
      BaseEntry("Lini", "Citi", NoneR),
      BaseEntry("Griki", "Graudaugi", R(600)),
      BaseEntry("Kukuruza", "Graudaugi", R(180)),
      BaseEntry("Pupas", "Paksaugi", R(130))>>

\* get_price_map(): the cached market prices
MarketPrices == [n \in {"Kviesi"} |-> R(250)]

Fields ==
    {FieldModel(1, R(10), "malaina", R(0), ph) : ph \in {NoneR, R(5), R(6)}}
    \cup {FieldModel(2, Frac(9, 2), "smilts", R(50), R(8))}

FilterModes ==
    {[crop_group_filter |-> None, favorite_crops_filter |-> {},
      favorites_plus_group |-> FALSE, allowed_groups |-> <<>>],
     [crop_group_filter |-> "Graudaugi", favorite_crops_filter |-> {},
      favorites_plus_group |-> FALSE, allowed_groups |-> <<>>],
     [crop_group_filter |-> None, favorite_crops_filter |-> {"Kviesi"},
      favorites_plus_group |-> FALSE, allowed_groups |-> <<>>],
     [crop_group_filter |-> "Graudaugi", favorite_crops_filter |-> {"Kartupeli"},
      favorites_plus_group |-> TRUE, allowed_groups |-> <<>>],
     [crop_group_filter |-> "Ellaugi", favorite_crops_filter |-> {"Kviesi"},
      favorites_plus_group |-> FALSE, allowed_groups |-> <<>>],
     [crop_group_filter |-> None, favorite_crops_filter |-> {},
      favorites_plus_group |-> FALSE, allowed_groups |-> <<"Graudaugi", "Ellaugi">>]}

\* <<include_vegetables, include_crops_without_price, use_market_prices>>
OptionFlags ==
    {<<TRUE, FALSE, FALSE>>, <<FALSE, FALSE, FALSE>>, <<TRUE, TRUE, FALSE>>,
     <<TRUE, FALSE, TRUE>>, <<FALSE, TRUE, TRUE>>}

Options ==
    {[crop_group_filter |-> m.crop_group_filter,
      favorite_crops_filter |-> m.favorite_crops_filter,
      favorites_plus_group |-> m.favorites_plus_group,
      allowed_groups |-> m.allowed_groups,
      include_vegetables |-> b[1],
      include_crops_without_price |-> b[2],
      use_market_prices |-> b[3]] :
        m \in FilterModes, b \in OptionFlags}

\* only-favorites calls whose favorite is a crop that some catalogs lack
RapeseedFavoriteOptions ==
    {[crop_group_filter |-> None,
      favorite_crops_filter |-> {"Rapsis"},
      favorites_plus_group |-> FALSE,
      allowed_groups |-> <<>>,
      include_vegetables |-> b[1],
      include_crops_without_price |-> b[2],
      use_market_prices |-> b[3]] :
        b \in OptionFlags}

TargetYears == {2022 + NumYears - 1, 2022 + NumYears}

PlantingYears == {2022 + NumYears - 2, 2022 + NumYears - 1}

PlantingCrops == {"Kviesi", "Rapsis"}

SavedPrices == {R(150), R(0)}

RECURSIVE SetToSeq(_)
SetToSeq(S) ==
    IF S = {} THEN <<>>
    ELSE LET x == CHOOSE y \in S : TRUE IN <<x>> \o SetToSeq(S \ {x})

\* storage.py list_plantings: the rows of the table as a list
list_plantings(table) == SetToSeq(table)

Env == [prices_csv |-> prices_csv, base_catalog |-> MainBaseCatalog,
        market_prices |-> MarketPrices]

Init ==
    /\ plantings = {}
    /\ prices_csv = <<>>
    /\ pc = "idle"
    /\ call = [op |-> "none"]
    /\ result = None

\* storage.py add_planting: insert or replace on the key (field_id, year)
AddPlanting ==
    /\ pc = "idle"
    /\ \E f \in FieldIds, y \in PlantingYears, c \in PlantingCrops :
          LET others == {p \in plantings : ~(p.field_id = f /\ p.year = y)}
          IN  /\ Cardinality(others) < MaxHistory
              /\ plantings' = others \cup {PlantingRecord(f, y, c)}
    /\ UNCHANGED <<prices_csv, pc, call, result>>

\* prices.py save_price_to_csv
SavePriceToCsv ==
    /\ pc = "idle"
    /\ \E n \in {"Kviesi"}, v \in SavedPrices :
          prices_csv' = [m \in DOMAIN prices_csv \cup {n} |->
                            IF m = n THEN v ELSE prices_csv[m]]
    /\ UNCHANGED <<plantings, pc, call, result>>

RecommendForField ==
    /\ pc = "idle"
    /\ \E field \in Fields, crops_dict \in Catalogs, target_year \in TargetYears,
          opts \in Options \cup RapeseedFavoriteOptions :
          LET working == WorkingCropsDict(crops_dict, opts.use_market_prices, Env)
              orders == IF PlusGroupMode(opts)
                        THEN SetOrders(PlusGroupSet(working, field, opts))
                        ELSE {<<>>}
          IN  \E set_order \in orders :
                /\ call' = [op |-> "recommend_for_field", field |-> field,
                            history |-> list_plantings(plantings),
                            crops_dict |-> crops_dict, target_year |-> target_year,
                            opts |-> opts, set_order |-> set_order]
                /\ result' = recommend_for_field(field, list_plantings(plantings),
                                                 crops_dict, target_year, opts, Env,
                                                 set_order)
    /\ pc' = "done"
    /\ UNCHANGED <<plantings, prices_csv>>

\* the caller has shown the result and is ready for the next request
Return ==
    /\ pc = "done"
    /\ pc' = "idle"
    /\ call' = [op |-> "none"]
    /\ result' = None
    /\ UNCHANGED <<plantings, prices_csv>>

Next ==
    \/ AddPlanting
    \/ SavePriceToCsv
    \/ RecommendForField
    \/ Return

Spec == Init /\ [][Next]_vars

(***************************************************************************)
(* Properties of recommend_for_field (specification Spec).                 *)
(***************************************************************************)
RecDone == pc = "done" /\ call.op = "recommend_for_field"

CallWorking == WorkingCropsDict(call.crops_dict, call.opts.use_market_prices, Env)

\* the candidate list that the call hands to the rotation rules
CallFiltered == FilteredByFavorites(CallWorking, call.field, call.opts, call.set_order)

CallAllowed ==
    get_allowed_crops(call.history, CallFiltered, call.target_year, call.field.id)

\* the allowed crops that pass the zero-price check and the price validation
CallSurvivors ==
    {n \in Range(CallAllowed) :
        ScoreStatus(Lookup(CallWorking, n), call.opts, Env) = "scored"}

\* profit_total of a crop of the call, pH penalty included, before rounding
CallProfit(n) == ScoreCrop(call.field, Lookup(CallWorking, n), Env).profit_total

CandidateNames == {result.candidates[i].name : i \in 1..Len(result.candidates)}

\* C1: when a best crop is returned, it is a surviving crop and no surviving
\* crop has a strictly greater profit_total (pH penalty included).
C1_BestIsMaxProfit ==
    (RecDone /\ result.best_crop # None) =>
        /\ result.best_crop \in CallSurvivors
        /\ \A n \in CallSurvivors : ~RGt(CallProfit(n), CallProfit(result.best_crop))

\* witness of C1: a best crop was chosen over a candidate of strictly lower profit
C1_Witness ==
    /\ RecDone
    /\ result.best_crop # None
    /\ Len(result.candidates) >= 2
    /\ \E n \in CallSurvivors : RLt(CallProfit(n), CallProfit(result.best_crop))

\* C2: the best crop, when there is one, and every entry of candidates are
\* members of get_allowed_crops(history, filtered candidates, target_year,
\* field.id).
C2_WithinAllowedSet ==
    RecDone =>
        /\ result.best_crop # None => result.best_crop \in Range(CallAllowed)
        /\ CandidateNames \subseteq Range(CallAllowed)

\* witness of C2: a crop was recommended while the rotation rules forbade another
C2_Witness ==
    /\ RecDone
    /\ result.best_crop # None
    /\ Range(CallFiltered) \ Range(CallAllowed) # {}

\* the records (F, Y, C) of the call's history with F the call's field and
\* Y + 1 the call's target year
PreviousYearRecords ==
    {r \in Range(call.history) :
        r.field_id = call.field.id /\ r.year + 1 = call.target_year}

\* C3: a crop planted on the field in target_year - 1 is neither the best
\* crop nor in candidates; when it is the only crop left by the earlier filter
\* stages the result has no best crop and no candidates.
C3_NoImmediateRepeat ==
    RecDone =>
        \A r \in PreviousYearRecords :
            /\ result.best_crop # r.crop
            /\ r.crop \notin CandidateNames
            /\ CallFiltered = <<r.crop>> =>
                   result.best_crop = None /\ result.candidates = <<>>

\* witness of C3: the sole filtered candidate was planted the year before
C3_Witness ==
    /\ RecDone
    /\ \E r \in PreviousYearRecords : CallFiltered = <<r.crop>>
    /\ result.best_crop = None

\* the entries of candidates and of top3
OutputEntries ==
    {result.candidates[i] : i \in 1..Len(result.candidates)}
    \cup {[name |-> result.top3[i].name, profit_total |-> result.top3[i].profit_total,
           profit_per_ha |-> result.top3[i].profit_per_ha,
           ph_note |-> result.top3[i].ph_note] : i \in 1..Len(result.top3)}

\* |x - y| <= t
RClose(x, y, t) == RLe(RSub(x, y), t) /\ RLe(RSub(y, x), t)

\* C9: every entry of candidates and of top3 has profit_total equal to
\* profit_per_ha * area_ha, up to the rounding of both to 2 decimals, entries
\* with the pH penalty included.
C9_TotalIsPerHaTimesArea ==
    RecDone =>
        \A e \in OutputEntries :
            RClose(e.profit_total, RMul(e.profit_per_ha, call.field.area_ha),
                   RMul(Frac(5, 1000), RAdd(call.field.area_ha, R(1))))

\* C10: a candidate's profit_total is exactly 90 % of the profit_total of
\* calculate_profit when field.ph and crop.ph_range are set and ph is
\* strictly below the minimum or strictly above the maximum, and is the
\* value of calculate_profit in every other case (both as rounded in the
\* output).
C10_PhPenaltyExact ==
    RecDone =>
        \A i \in 1..Len(result.candidates) :
            LET e == result.candidates[i]
                crop == Lookup(CallWorking, e.name)
                unpenalized ==
                    ScoreCrop(call.field, crop, Env).calc_result.profit_total
                outside ==
                    /\ call.field.ph # NoneR
                    /\ crop.ph_range # NoneR
                    /\ \/ RLt(call.field.ph, crop.ph_range[1])
                       \/ RLt(crop.ph_range[2], call.field.ph)
            IN  e.profit_total =
                    Round2(IF outside THEN RMul(Frac(9, 10), unpenalized)
                           ELSE unpenalized)

\* witness of C10: a candidate with a non-zero profit carries the penalty
C10_Witness ==
    /\ RecDone
    /\ \E i \in 1..Len(result.candidates) :
          /\ result.candidates[i].ph_note # NoneR
          /\ result.candidates[i].profit_total # R(0)

\* the price get_price_for_crop resolves for a crop of the call
CallResolvedPrice(n) ==
    get_price_for_crop(Lookup(CallWorking, n), Env.prices_csv, Env.base_catalog).price

\* C18: with include_crops_without_price false, a crop whose resolved price
\* is 0 is neither best_crop nor in candidates; when every rotation-allowed
\* crop has resolved price 0, the result has best_crop None, no candidates
\* and lists those crops in crops_without_price.
C18_ZeroPriceNeverRecommended ==
    (RecDone /\ ~call.opts.include_crops_without_price) =>
        /\ \A n \in Range(CropNames(call.crops_dict)) :
              CallResolvedPrice(n) = R(0) =>
                  /\ result.best_crop # n
                  /\ n \notin CandidateNames
        /\ (\A n \in Range(CallAllowed) : CallResolvedPrice(n) = R(0)) =>
              /\ result.best_crop = None
              /\ result.candidates = <<>>
              /\ Range(CallAllowed) \subseteq Range(result.crops_without_price)

\* a call whose rotation-allowed crops all have resolved price 0
C18_Witness ==
    /\ RecDone
    /\ ~call.opts.include_crops_without_price
    /\ CallAllowed # <<>>
    /\ \A n \in Range(CallAllowed) : CallResolvedPrice(n) = R(0)
    /\ result.crops_without_price # <<>>

\* C19: with include_vegetables false, best_crop is never a crop of the
\* vegetable group.
C19_NoVegetableBestCrop ==
    (RecDone /\ ~call.opts.include_vegetables /\ result.best_crop # None) =>
        Lookup(call.crops_dict, result.best_crop).group # "Darzeni"

\* profit_total of a crop of the call as calculate_profit returns it, before
\* the pH penalty
CallUnpenalizedProfit(n) ==
    ScoreCrop(call.field, Lookup(CallWorking, n), Env).calc_result.profit_total

\* C30: a candidate that got the pH penalty has a profit_total that is not
\* greater than its profit_total without the penalty, whatever the sign of
\* the latter.
C30_PenaltyNeverRaisesProfit ==
    RecDone =>
        \A n \in CandidateNames :
            PhOutsideRange(call.field, Lookup(CallWorking, n)) =>
                RLe(CallProfit(n), CallUnpenalizedProfit(n))

\* the list the favorites filter of the call receives
CallFilteredByGroup ==
    FilteredByGroup(CallWorking,
        FilteredByAllowedGroups(CallWorking,
            FilteredByVegetables(CallWorking, FilteredCandidates(CallWorking, call.field),
                                 call.opts),
            call.opts), call.opts)

\* the favorites filter of the call removed the last crop
FavoritesEmptied ==
    /\ call.opts.favorite_crops_filter # {}
    /\ CallFilteredByGroup # <<>>
    /\ CallFiltered = <<>>

\* the rotation rules of the call removed the last crop
RotationEmptied == CallFiltered # <<>> /\ CallAllowed = <<>>

\* what the no-allowed-crops outcome alone says about the stage: its message
\* names the favorites and used_favorites_filter is False
OutcomeSaysFavorites(outcome) ==
    /\ Len(outcome.explanation) = 3
    /\ \E i \in 1..Len(outcome.explanation[2]) :
          outcome.explanation[2][i] \in {"favoritos", "favoritos + izveletaja grupa"}
    /\ ~outcome.used_favorites_filter

\* C27: the no-allowed-crops outcome tells the two stages apart: when the
\* favorites filter removed the last crop the outcome names the favorites with
\* used_favorites_filter False, and when the rotation rules removed the last
\* crop it does not.
C27_EmptyingStageDistinguishable ==
    (RecDone /\ CallAllowed = <<>>) =>
        /\ result.best_crop = None
        /\ FavoritesEmptied => OutcomeSaysFavorites(result)
        /\ RotationEmptied => ~OutcomeSaysFavorites(result)

\* the favorites filter emptied the list, and the same call with another
\* catalog has the rotation rules empty it under the same message
C27_Witness ==
    /\ RecDone
    /\ FavoritesEmptied
    /\ OutcomeSaysFavorites(result)
    /\ \E crops_dict \in Catalogs :
          LET other == recommend_for_field(call.field, call.history, crops_dict,
                                           call.target_year, call.opts, Env,
                                           call.set_order)
              filtered == FilteredByFavorites(
                              WorkingCropsDict(crops_dict, call.opts.use_market_prices, Env),
                              call.field, call.opts, call.set_order)
          IN  /\ filtered # <<>>
              /\ get_allowed_crops(call.history, filtered, call.target_year,
                                   call.field.id) = <<>>
              /\ other.explanation = result.explanation
              /\ other.used_favorites_filter

(***************************************************************************)
(* scenarios.py: price_scenarios; planner.py: _build_temp_crops_dict,      *)
(* recommend_with_scenarios.                                               *)
(*                                                                         *)
(* hash_order stands for the order in which the Python process iterates    *)
(* sets of crop names: a list of all names of the catalog; the set of      *)
(* planner.py 703 is iterated in the order its members have in hash_order. *)
(***************************************************************************)
\* the scenarios in the insertion order of the dict price_scenarios returns
ScenarioNames == <<"minus20", "minus10", "base", "plus10", "plus20">>

\* scenarios.py 49-69: the factor applied to every base price
ScenarioFactor(scenario_name) ==
    CASE scenario_name = "minus20" -> Frac(8, 10)
      [] scenario_name = "minus10" -> Frac(9, 10)
      [] scenario_name = "base"    -> R(1)
      [] scenario_name = "plus10"  -> Frac(11, 10)
      [] scenario_name = "plus20"  -> Frac(12, 10)

\* scenarios.py 29-71
price_scenarios(base_prices) ==
    [i \in 1..Len(ScenarioNames) |->
        [n \in DOMAIN base_prices |->
            RMul(base_prices[n], ScenarioFactor(ScenarioNames[i]))]]

\* planner.py 1296-1308: base_prices of recommend_with_scenarios
BasePrices(crops_dict, env) ==
    LET working == WorkingCropsDict(crops_dict, TRUE, env)
    IN  [n \in Range(CropNames(crops_dict)) |-> Lookup(working, n).price_eur_t]

\* planner.py 1217-1254
_build_temp_crops_dict(crops_dict, new_prices, env) ==
    LET effective_price(crop) ==
            LET info == get_price_for_crop(crop, env.prices_csv, env.base_catalog)
            IN  IF info.confidence = "high" THEN info.price ELSE new_prices[crop.name]
    IN  [i \in 1..Len(crops_dict) |->
            CropModel(crops_dict[i].name, crops_dict[i].group,
                      crops_dict[i].sow_months, crops_dict[i].yield_t_ha,
                      crops_dict[i].cost_eur_ha, effective_price(crops_dict[i]),
                      TRUE, crops_dict[i].ph_range)]

\* the iteration order of the set of planner.py 703 for one call
SetOrderFor(hash_order, crops_dict, field, opts, env) ==
    IF PlusGroupMode(opts)
    THEN LET working == WorkingCropsDict(crops_dict, opts.use_market_prices, env)
         IN  SelectSeq(hash_order, LAMBDA n : n \in PlusGroupSet(working, field, opts))
    ELSE <<>>

\* recommend_for_field with the set order derived from hash_order
Recommend(field, history, crops_dict, target_year, opts, env, hash_order) ==
    recommend_for_field(field, history, crops_dict, target_year, opts, env,
                        SetOrderFor(hash_order, crops_dict, field, opts, env))

\* number of occurrences of x in the list s
Count(s, x) == Cardinality({i \in 1..Len(s) : s[i] = x})

\* variant of most_common that returns the last-inserted key among those with
\* the greatest count
MostCommon_last(best_crops) ==
    LET top == {i \in 1..Len(best_crops) :
                   \A j \in 1..Len(best_crops) :
                       Count(best_crops, best_crops[j]) <= Count(best_crops, best_crops[i])}
        last == CHOOSE i \in top : \A j \in top : j <= i
    IN  best_crops[last]

\* Counter(best_crops).most_common(1)[0][0]: the first-inserted key among
\* those with the greatest count
MostCommon(best_crops) ==
    LET top == {i \in 1..Len(best_crops) :
                   \A j \in 1..Len(best_crops) :
                       Count(best_crops, best_crops[j]) <= Count(best_crops, best_crops[i])}
        first == CHOOSE i \in top : \A j \in top : i <= j
    IN  best_crops[first]

\* planner.py 1331-1361: stable_crop and stability from the five results
ScenarioSummary(scenario_results) ==
    LET winners == SelectSeq(scenario_results, LAMBDA r : r.best_crop # None)
        best_crops == [i \in 1..Len(winners) |-> winners[i].best_crop]
    IN  IF best_crops = <<>>
        THEN [stable_crop |-> None, stability |-> 0,
              scenario_results |-> scenario_results]
        ELSE [stable_crop |-> MostCommon(best_crops),
              stability |-> Count(best_crops, MostCommon(best_crops)),
              scenario_results |-> scenario_results]

\* planner.py 1257-1361
recommend_with_scenarios(field, history, crops_dict, target_year, opts, env, hash_order) ==
    ScenarioSummary(
        [i \in 1..Len(ScenarioNames) |->
            Recommend(field, history,
                      _build_temp_crops_dict(
                          crops_dict, price_scenarios(BasePrices(crops_dict, env))[i], env),
                      target_year, [opts EXCEPT !.use_market_prices = FALSE], env,
                      hash_order)])

(***************************************************************************)
(* planner.py: plan_for_years, plan_for_years_lookahead.  A plan entry     *)
(* keeps year, crop, profit, profit_per_ha, sow_months and explanation     *)
(* (and profit_total when a crop was chosen); the revenue and cost fields  *)
(* and field_name are left out.                                            *)
(***************************************************************************)
\* planner.py 1453-1476, 1608-1632: calculate_profit of a catalog crop at the
\* price get_price_for_crop resolves for it
DirectProfit(field, crop, env) ==
    LET price_value == get_price_for_crop(crop, env.prices_csv, env.base_catalog).price
    IN  calculate_profit(field,
                         CropModel(crop.name, crop.group, crop.sow_months,
                                   crop.yield_t_ha, crop.cost_eur_ha, price_value,
                                   crop.is_market_crop, crop.ph_range),
                         field.rent_eur_ha)

\* planner.py 1441-1449, 1811-1818: the entry of a year without a best crop
NullPlanEntry(target_year, explanation) ==
    [year |-> target_year, crop |-> None, profit |-> R(0), profit_per_ha |-> R(0),
     sow_months |-> <<>>, explanation |-> explanation]

\* planner.py 1485-1497, 1772-1784, 1832-1844: the entry of a year with a crop
CropPlanEntry(target_year, crop_name, profit_total, profit_per_ha, sow_months, explanation) ==
    [year |-> target_year, crop |-> crop_name, profit |-> Round2(profit_total),
     profit_total |-> Round2(profit_total), profit_per_ha |-> Round2(profit_per_ha),
     sow_months |-> sow_months, explanation |-> explanation]

\* variant of the history update that never extends the working history
ExtendHistory_unchanged(virtual_history, field_id, target_year, best_crop) ==
    virtual_history

\* planner.py 1499-1506, 1846-1853: virtual_history after a planned year
ExtendHistory(virtual_history, field_id, target_year, best_crop) ==
    IF best_crop = None THEN virtual_history
    ELSE Append(virtual_history, PlantingRecord(field_id, target_year, best_crop))

\* planner.py 1438-1497: the plan entry of one year of plan_for_years and the
\* unrounded profit added to total_profit
GreedyStep(field, crops_dict, target_year, year_result, env) ==
    IF year_result.best_crop = None
    THEN [entry |-> NullPlanEntry(target_year, year_result.explanation),
          raw_profit |-> R(0)]
    ELSE LET calc_result ==
                 DirectProfit(field, Lookup(crops_dict, year_result.best_crop), env)
         IN  [entry |-> CropPlanEntry(target_year, year_result.best_crop,
                                      calc_result.profit_total,
                                      calc_result.profit_per_ha,
                                      year_result.sow_months, year_result.explanation),
              raw_profit |-> calc_result.profit_total]

RECURSIVE PlanYears(_, _, _, _, _, _, _, _)
RECURSIVE PlanYearsWith(_, _, _, _, _, _, _, _, _)
\* planner.py 1438-1508: the rest of the loop once the year's recommendation
\* is known
PlanYearsWith(field, virtual_history, crops_dict, target_year, remaining, opts, env, hash_order, year_result) ==
    <<GreedyStep(field, crops_dict, target_year, year_result, env)>>
    \o PlanYears(field,
                 ExtendHistory(virtual_history, field.id, target_year,
                               year_result.best_crop),
                 crops_dict, target_year + 1, remaining - 1, opts, env, hash_order)

\* planner.py 1420-1508: the loop of plan_for_years from target_year on; each
\* step is the plan entry and the unrounded profit added to total_profit
PlanYears(field, virtual_history, crops_dict, target_year, remaining, opts, env, hash_order) ==
    IF remaining = 0 THEN <<>>
    ELSE PlanYearsWith(field, virtual_history, crops_dict, target_year, remaining,
                       opts, env, hash_order,
                       Recommend(field, virtual_history, crops_dict, target_year,
                                 opts, env, hash_order))

\* total_profit: the sum of the unrounded profits of the steps
SumRawProfit(steps) == RSum([i \in 1..Len(steps) |-> steps[i].raw_profit])

\* planner.py 1510-1523: the returned dict
PlanResult(field, start_year, years, steps) ==
    LET total_profit == SumRawProfit(steps)
    IN  [field_id |-> field.id, start_year |-> start_year, years |-> years,
         plan |-> [i \in 1..Len(steps) |-> steps[i].entry],
         total_profit |-> Round2(total_profit),
         avg_profit_per_ha |->
             Round2(IF RGt(field.area_ha, R(0)) /\ years > 0
                    THEN RDiv(total_profit, RMul(field.area_ha, R(years)))
                    ELSE R(0))]

\* recommend_for_field is called without use_market_prices, which is then True
WithMarketPrices(opts) == [opts EXCEPT !.use_market_prices = TRUE]

\* planner.py 1364-1523
plan_for_years(field, history, crops_dict, start_year, years, opts, env, hash_order) ==
    PlanResult(field, start_year, years,
               PlanYears(field, history, crops_dict, start_year, years,
                         WithMarketPrices(opts), env, hash_order))

\* planner.py 1579-1590: the arguments of the plan_for_years call made when
\* the first year has no best crop (include_vegetables and allowed_groups are
\* not passed on and take their defaults)
FallbackOpts(opts) ==
    [opts EXCEPT !.include_vegetables = FALSE, !.allowed_groups = <<>>]

\* planner.py 1664-1674: the arguments of the recommend_for_field calls of the
\* simulation (crop_group_filter and favorites_plus_group are not passed on)
SimulationOpts(opts) ==
    [WithMarketPrices(opts) EXCEPT !.crop_group_filter = None,
                                   !.favorites_plus_group = FALSE]

\* planner.py 1801-1809: the arguments of the recommend_for_field calls of the
\* final plan (favorite_crops_filter is not passed on either)
FinalPlanOpts(opts) ==
    [SimulationOpts(opts) EXCEPT !.favorite_crops_filter = {}]

\* planner.py 1594-1600: names of the candidates to evaluate
TopCandidates(first_year_result, candidates) ==
    LET names == IF first_year_result.top3 = <<>>
                 THEN <<first_year_result.best_crop>>
                 ELSE [i \in 1..Len(first_year_result.top3) |->
                          first_year_result.top3[i].name]
    IN  SubSeq(names, 1, IF Len(names) < candidates THEN Len(names) ELSE candidates)

\* planner.py 1606-1704: candidate_total_profit of one candidate
SimulatedTotal(field, history, crops_dict, start_year, years, candidate_crop, opts, env, hash_order) ==
    RAdd(DirectProfit(field, Lookup(crops_dict, candidate_crop), env).profit_total,
         SumRawProfit(
             IF years > 1
             THEN PlanYears(field,
                            Append(history,
                                   PlantingRecord(field.id, start_year, candidate_crop)),
                            crops_dict, start_year + 1, years - 1, SimulationOpts(opts),
                            env, hash_order)
             ELSE <<>>))

RECURSIVE InsertByTotalDesc(_, _)
InsertByTotalDesc(e, s) ==
    IF s = <<>> THEN <<e>>
    ELSE IF RLe(e.total_profit, Head(s).total_profit)
         THEN <<Head(s)>> \o InsertByTotalDesc(e, Tail(s))
         ELSE <<e>> \o s

\* variant of the ranking that leaves the candidates in top-K order
RECURSIVE SortByTotalDesc_unsorted(_)
SortByTotalDesc_unsorted(s) ==
    IF s = <<>> THEN <<>>
    ELSE Append(SortByTotalDesc_unsorted(SubSeq(s, 1, Len(s) - 1)), s[Len(s)])

\* planner.py 1712: evaluated_candidates.sort(key=total_profit, reverse=True),
\* stable
RECURSIVE SortByTotalDesc(_)
SortByTotalDesc(s) ==
    IF s = <<>> THEN <<>>
    ELSE InsertByTotalDesc(s[Len(s)], SortByTotalDesc(SubSeq(s, 1, Len(s) - 1)))

\* planner.py 1811-1844: the plan entry of a later year of the final plan; the
\* profit of the year is the profit_total of the recommendation
FinalStep(target_year, year_result) ==
    IF year_result.best_crop = None
    THEN [entry |-> NullPlanEntry(target_year, year_result.explanation),
          raw_profit |-> R(0)]
    ELSE [entry |-> CropPlanEntry(target_year, year_result.best_crop,
                                  year_result.profit_total, year_result.profit_per_ha,
                                  year_result.sow_months, year_result.explanation),
          raw_profit |-> year_result.profit_total]

RECURSIVE FinalYears(_, _, _, _, _, _, _, _)
RECURSIVE FinalYearsWith(_, _, _, _, _, _, _, _, _)
\* planner.py 1811-1853: the rest of the loop once the year's recommendation
\* is known
FinalYearsWith(field, virtual_history, crops_dict, target_year, remaining, opts, env, hash_order, year_result) ==
    <<FinalStep(target_year, year_result)>>
    \o FinalYears(field,
                  ExtendHistory(virtual_history, field.id, target_year,
                                year_result.best_crop),
                  crops_dict, target_year + 1, remaining - 1, opts, env, hash_order)

\* planner.py 1796-1854: the years after the first of the final plan
FinalYears(field, virtual_history, crops_dict, target_year, remaining, opts, env, hash_order) ==
    IF remaining = 0 THEN <<>>
    ELSE FinalYearsWith(field, virtual_history, crops_dict, target_year, remaining,
                        opts, env, hash_order,
                        Recommend(field, virtual_history, crops_dict, target_year,
                                  opts, env, hash_order))

\* planner.py 1603-1713: evaluated_candidates, sorted
EvaluatedCandidates(field, history, crops_dict, start_year, years, top_candidates, opts, env, hash_order) ==
    SortByTotalDesc(
        [i \in 1..Len(top_candidates) |->
            [crop |-> top_candidates[i],
             total_profit |->
                 Round2(SimulatedTotal(field, history, crops_dict, start_year, years,
                                       top_candidates[i], opts, env, hash_order))]])

\* planner.py 1760-1786: the first entry of the final plan
FirstStep(field, crops_dict, start_year, years, best, env) ==
    LET first_year_crop == Lookup(crops_dict, best.crop)
        calc_result == DirectProfit(field, first_year_crop, env)
    IN  [entry |-> CropPlanEntry(start_year, best.crop, calc_result.profit_total,
                                 calc_result.profit_per_ha, first_year_crop.sow_months,
                                 <<"Look-ahead izvele", best.total_profit, years>>),
         raw_profit |-> calc_result.profit_total]

\* planner.py 1856-1873: the returned dict
LookaheadResult(planned, evaluated_candidates) ==
    [field_id |-> planned.field_id, start_year |-> planned.start_year,
     years |-> planned.years, plan |-> planned.plan,
     total_profit |-> planned.total_profit,
     avg_profit_per_ha |-> planned.avg_profit_per_ha,
     method |-> "lookahead",
     evaluated_candidates |-> evaluated_candidates]

\* planner.py 1715-1873: the final plan built around the best candidate
LookaheadPlan(field, history, crops_dict, start_year, years, opts, env, hash_order, evaluated_candidates) ==
    LookaheadResult(
        PlanResult(field, start_year, years,
                   <<FirstStep(field, crops_dict, start_year, years,
                               evaluated_candidates[1], env)>>
                   \o (IF years > 1
                       THEN FinalYears(field,
                                       Append(history,
                                              PlantingRecord(field.id, start_year,
                                                             evaluated_candidates[1].crop)),
                                       crops_dict, start_year + 1, years - 1,
                                       FinalPlanOpts(opts), env, hash_order)
                       ELSE <<>>)),
        evaluated_candidates)

\* planner.py 1564-1873: the call once the first-year recommendation is known
LookaheadWith(field, history, crops_dict, start_year, years, candidates, opts, env, hash_order, first_year_result) ==
    IF first_year_result.best_crop = None
    THEN plan_for_years(field, history, crops_dict, start_year, years,
                        FallbackOpts(opts), env, hash_order)
    ELSE LookaheadPlan(field, history, crops_dict, start_year, years, opts, env,
                       hash_order,
                       EvaluatedCandidates(field, history, crops_dict, start_year, years,
                                           TopCandidates(first_year_result, candidates),
                                           opts, env, hash_order))

\* planner.py 1526-1873
plan_for_years_lookahead(field, history, crops_dict, start_year, years, candidates, opts, env, hash_order) ==
    LookaheadWith(field, history, crops_dict, start_year, years, candidates, opts, env,
                  hash_order,
                  Recommend(field, history, crops_dict, start_year,
                            WithMarketPrices(opts), env, hash_order))

(***************************************************************************)
(* planner.py: recommend_for_all_fields_with_limits.  fields is the list   *)
(* of FieldModel values, histories_by_field a function from field ids to   *)
(* lists of records, max_area_per_crop a function from the crops that have *)
(* a cap to the cap in ha.  field_name is left out of the results.         *)
(***************************************************************************)
\* planner.py 1997-2004: the price a candidate is scored with
AllocPrice(crop, opts, env) ==
    LET prices_with_fallback ==
            load_prices_with_fallback(env.prices_csv, env.base_catalog)
        fallback_price ==
            IF crop.name \in DOMAIN prices_with_fallback
            THEN prices_with_fallback[crop.name]
            ELSE IF crop.price_eur_t # NoneR THEN crop.price_eur_t
            ELSE R(0)
    IN  IF opts.use_market_prices /\ crop.name \in DOMAIN env.market_prices
        THEN env.market_prices[crop.name]
        ELSE fallback_price

\* planner.py 1946-1986: the candidate names handed to get_allowed_crops
AllocFiltered(field, crops_dict, opts, hash_order) ==
    LET filtered_by_group ==
            FilteredByGroup(crops_dict,
                FilteredByAllowedGroups(crops_dict,
                    FilteredByVegetables(crops_dict,
                        FilteredCandidates(crops_dict, field), opts), opts), opts)
        favorite_crops ==
            SelectSeq(CropNames(crops_dict), LAMBDA n : n \in opts.favorite_crops_filter)
    IN  IF opts.favorite_crops_filter = {} THEN filtered_by_group
        ELSE IF opts.favorites_plus_group /\ opts.crop_group_filter # None
        THEN SelectSeq(hash_order,
                       LAMBDA n : n \in Range(filtered_by_group) \cup Range(favorite_crops))
        ELSE SelectSeq(filtered_by_group, LAMBDA n : n \in opts.favorite_crops_filter)

\* planner.py 2006-2037: the tuple appended to candidates for one crop
AllocScore(field, crop, opts, env) ==
    LET calc_result ==
            calculate_profit(field,
                             CropModel(crop.name, crop.group, crop.sow_months,
                                       crop.yield_t_ha, crop.cost_eur_ha,
                                       AllocPrice(crop, opts, env),
                                       crop.is_market_crop, crop.ph_range),
                             field.rent_eur_ha)
        profit_total == IF PhOutsideRange(field, crop)
                        THEN PenalizedProfit(calc_result.profit_total)
                        ELSE calc_result.profit_total
    IN  [name |-> crop.name,
         profit_total |-> profit_total,
         profit_per_ha |-> IF PhOutsideRange(field, crop)
                           THEN IF RGt(field.area_ha, R(0))
                                THEN RDiv(profit_total, field.area_ha) ELSE R(0)
                           ELSE calc_result.profit_per_ha]

\* planner.py 1942-2041: field_candidates[field.id]
AllocCandidates(field, history, crops_dict, target_year, opts, env, hash_order) ==
    LET allowed_crops ==
            get_allowed_crops(history, AllocFiltered(field, crops_dict, opts, hash_order),
                              target_year, field.id)
    IN  SortByProfitDesc([i \in 1..Len(allowed_crops) |->
                             AllocScore(field, Lookup(crops_dict, allowed_crops[i]),
                                        opts, env)])

\* float('inf')
Infinity == <<1, 0>>

\* planner.py 2052-2059
Difficulty(candidates) ==
    IF Len(candidates) >= 2
    THEN RSub(candidates[1].profit_total, candidates[2].profit_total)
    ELSE IF Len(candidates) = 1 THEN R(0)
    ELSE Infinity

\* a.difficulty <= b.difficulty
DifficultyLe(a, b) ==
    IF b.difficulty = Infinity THEN TRUE
    ELSE IF a.difficulty = Infinity THEN FALSE
    ELSE RLe(a.difficulty, b.difficulty)

RECURSIVE InsertByDifficulty(_, _)
InsertByDifficulty(e, s) ==
    IF s = <<>> THEN <<e>>
    ELSE IF DifficultyLe(Head(s), e)
         THEN <<Head(s)>> \o InsertByDifficulty(e, Tail(s))
         ELSE <<e>> \o s

\* variant of the ordering that leaves the fields in input order
SortByDifficulty_input_order(s) == s

\* planner.py 2064: field_priorities.sort(key=difficulty), stable
RECURSIVE SortByDifficulty(_)
SortByDifficulty(s) ==
    IF s = <<>> THEN <<>>
    ELSE InsertByDifficulty(s[Len(s)], SortByDifficulty(SubSeq(s, 1, Len(s) - 1)))

\* variant of the cap test that ignores the area already allocated
CapFits_ignore_used(current_area, area_ha, crop_name, max_area_per_crop) ==
    \/ crop_name \notin DOMAIN max_area_per_crop
    \/ RLe(area_ha, max_area_per_crop[crop_name])

\* planner.py 2076-2079: current_area + field.area_ha <= max_area
CapFits(current_area, area_ha, crop_name, max_area_per_crop) ==
    \/ crop_name \notin DOMAIN max_area_per_crop
    \/ RLe(RAdd(current_area, area_ha), max_area_per_crop[crop_name])

\* planner.py 2067-2105: the loop over field_priorities
RECURSIVE AllocLoop(_, _, _)
AllocLoop(field_priorities, used_area_by_crop, max_area_per_crop) ==
    IF field_priorities = <<>> THEN <<>>
    ELSE
        LET field == Head(field_priorities).field
            candidates == Head(field_priorities).candidates
            fits == {i \in 1..Len(candidates) :
                        CapFits(used_area_by_crop[candidates[i].name], field.area_ha,
                                candidates[i].name, max_area_per_crop)}
            pick == IF fits # {} THEN CHOOSE i \in fits : \A j \in fits : i <= j ELSE 1
            chosen == candidates[pick]
            new_area == RAdd(used_area_by_crop[chosen.name], field.area_ha)
        IN  IF candidates = <<>>
            THEN <<[field_id |-> field.id, chosen_crop |-> None, profit |-> R(0),
                    profit_per_ha |-> R(0), warnings |-> <<>>]>>
                 \o AllocLoop(Tail(field_priorities), used_area_by_crop,
                              max_area_per_crop)
            ELSE <<[field_id |-> field.id, chosen_crop |-> chosen.name,
                    profit |-> Round2(chosen.profit_total),
                    profit_per_ha |-> Round2(chosen.profit_per_ha),
                    warnings |-> IF fits # {} THEN <<>>
                                 ELSE <<[crop |-> chosen.name,
                                         max_area |-> max_area_per_crop[chosen.name],
                                         area |-> new_area]>>]>>
                 \o AllocLoop(Tail(field_priorities),
                              [used_area_by_crop EXCEPT ![chosen.name] = new_area],
                              max_area_per_crop)

\* planner.py 1875-2107
recommend_for_all_fields_with_limits(fields, histories_by_field, crops_dict, target_year, max_area_per_crop, opts, env, hash_order) ==
    LET history(f) == IF f.id \in DOMAIN histories_by_field
                      THEN histories_by_field[f.id] ELSE <<>>
        field_priorities ==
            SortByDifficulty(
                [i \in 1..Len(fields) |->
                    LET candidates == AllocCandidates(fields[i], history(fields[i]),
                                                      crops_dict, target_year, opts, env,
                                                      hash_order)
                    IN  [field |-> fields[i], difficulty |-> Difficulty(candidates),
                         candidates |-> candidates]])
    IN  AllocLoop(field_priorities,
                  [n \in Range(CropNames(crops_dict)) |-> R(0)],
                  max_area_per_crop)

(***************************************************************************)
(* Specification SpecScenarios: a session in which the caller asks for the *)
(* scenario analysis of a field.                                           *)
(***************************************************************************)
Reverse(s) == [i \in 1..Len(s) |-> s[Len(s) + 1 - i]]

\* the iteration orders explored: catalog order and its reverse
HashOrders(crops_dict, opts) ==
    IF PlusGroupMode(opts)
    THEN {CropNames(crops_dict), Reverse(CropNames(crops_dict))}
    ELSE {CropNames(crops_dict)}

\* the planners have no use_market_prices argument
PlannerOptions == {o \in Options : ~o.use_market_prices}

ScenarioFields == {f \in Fields : f.ph \in {NoneR, R(8)}}

RecommendWithScenarios ==
    /\ pc = "idle"
    /\ \E field \in ScenarioFields, crops_dict \in Catalogs,
          target_year \in TargetYears, opts \in PlannerOptions :
          \E hash_order \in HashOrders(crops_dict, opts) :
            /\ call' = [op |-> "recommend_with_scenarios", field |-> field,
                        history |-> list_plantings(plantings),
                        crops_dict |-> crops_dict, target_year |-> target_year,
                        opts |-> opts, hash_order |-> hash_order]
            /\ result' = recommend_with_scenarios(field, list_plantings(plantings),
                                                  crops_dict, target_year, opts, Env,
                                                  hash_order)
    /\ pc' = "done"
    /\ UNCHANGED <<plantings, prices_csv>>

NextScenarios ==
    \/ AddPlanting
    \/ SavePriceToCsv
    \/ RecommendWithScenarios
    \/ Return

SpecScenarios == Init /\ [][NextScenarios]_vars

ScenDone == pc = "done" /\ call.op = "recommend_with_scenarios"

\* best crop of the i-th scenario run (None when the run has none)
ScenarioWinner(i) == result.scenario_results[i].best_crop

\* the scenario runs won by crop c
WonBy(c) == {i \in 1..Len(ScenarioNames) : ScenarioWinner(i) = c}

FirstWin(c) == CHOOSE i \in WonBy(c) : \A j \in WonBy(c) : i <= j

\* C12: stability is in 0..5 and is the number of scenario runs won by
\* stable_crop; no crop wins more runs, and a crop that wins as many has its
\* first win later in the order minus20, minus10, base, plus10, plus20;
\* stability is 0 with stable_crop None exactly when no run has a best crop.
C12_StableCropIsMode ==
    ScenDone =>
        LET crops == {ScenarioWinner(i) : i \in 1..Len(ScenarioNames)} \ {None}
        IN  /\ result.stability \in 0..5
            /\ (crops = {}) <=> (result.stability = 0 /\ result.stable_crop = None)
            /\ (crops = {}) <=> (result.stability = 0)
            /\ (crops = {}) <=> (result.stable_crop = None)
            /\ crops # {} =>
                  /\ result.stable_crop \in crops
                  /\ result.stability = Cardinality(WonBy(result.stable_crop))
                  /\ \A c \in crops \ {result.stable_crop} :
                        \/ Cardinality(WonBy(c)) < result.stability
                        \/ /\ Cardinality(WonBy(c)) = result.stability
                           /\ FirstWin(result.stable_crop) < FirstWin(c)

\* witness of C12: two crops win equally many runs and the earlier is returned
C12_Witness ==
    /\ ScenDone
    /\ result.stable_crop # None
    /\ \E i \in 1..Len(ScenarioNames) :
          /\ ScenarioWinner(i) \notin {None, result.stable_crop}
          /\ Cardinality(WonBy(ScenarioWinner(i))) = result.stability

\* the candidates entries of crop n in the i-th scenario run
ScenarioEntries(i, n) ==
    {result.scenario_results[i].candidates[k] :
        k \in {j \in 1..Len(result.scenario_results[i].candidates) :
                  result.scenario_results[i].candidates[j].name = n}}

\* C13: a crop with a numeric row in the price table is scored in all five
\* scenario runs with the same price: its candidates entry (revenue, cost,
\* profit) is the same in every run.
C13_TablePriceInvariant ==
    ScenDone =>
        \A n \in DOMAIN prices_csv :
            IsNumber(prices_csv[n]) =>
                \A i, j \in 1..Len(ScenarioNames) :
                    ScenarioEntries(i, n) = ScenarioEntries(j, n)

\* witness of C13: a crop priced by the table is a candidate while the profit
\* of the best crop changes between the first and the last scenario
C13_Witness ==
    /\ ScenDone
    /\ \E n \in DOMAIN prices_csv :
          IsNumber(prices_csv[n]) /\ ScenarioEntries(1, n) # {}
    /\ ScenarioWinner(1) # None
    /\ ScenarioWinner(5) # None
    /\ result.scenario_results[1].best_profit # result.scenario_results[5].best_profit

\* the price and confidence get_price_for_crop resolves for a catalog crop
BaseResolved(n) ==
    get_price_for_crop(Lookup(call.crops_dict, n), Env.prices_csv, Env.base_catalog)

\* revenue per ha of catalog crop n on the call's field at price_eur_t
RevenueAt(n, price_eur_t) ==
    LET crop == Lookup(call.crops_dict, n)
    IN  calculate_profit(call.field,
                         CropModel(crop.name, crop.group, crop.sow_months,
                                   crop.yield_t_ha, crop.cost_eur_ha, price_eur_t,
                                   TRUE, crop.ph_range),
                         call.field.rent_eur_ha).revenue_per_ha

\* C25: in every scenario run a candidate whose resolved price has confidence
\* medium or low is scored at its resolved price times the scenario's factor.
C25_ScenarioScalesResolvedPrice ==
    ScenDone =>
        \A i \in 1..Len(ScenarioNames) :
            \A k \in 1..Len(result.scenario_results[i].candidates) :
                LET e == result.scenario_results[i].candidates[k]
                IN  BaseResolved(e.name).confidence \in {"medium", "low"} =>
                        e.revenue_per_ha =
                            Round2(RevenueAt(e.name,
                                             RMul(BaseResolved(e.name).price,
                                                  ScenarioFactor(ScenarioNames[i]))))

(***************************************************************************)
(* Specification SpecPlan: a session in which the caller asks for          *)
(* multi-year plans of a field, greedy or with lookahead.  The LV price    *)
(* table stays empty.                                                      *)
(***************************************************************************)
\* default of the argument years of plan_for_years
DefaultYears == 3

\* default of the argument candidates of plan_for_years_lookahead
DefaultCandidates == 3

\* horizons of the greedy calls; the longest one spans the rapeseed window
Horizons == 1..(DefaultYears + 1)

\* <<years, candidates>> of the lookahead calls
LookaheadArgs ==
    {<<DefaultYears - 1, DefaultCandidates>>, <<DefaultYears, DefaultCandidates - 1>>,
     <<DefaultYears, DefaultCandidates>>, <<DefaultYears - 2, DefaultCandidates + 1>>}

\* allowed_groups restricted to the oil crops
OilCropsOnly ==
    [crop_group_filter |-> None, favorite_crops_filter |-> {},
     favorites_plus_group |-> FALSE, allowed_groups |-> <<"Ellaugi">>,
     include_vegetables |-> FALSE, include_crops_without_price |-> FALSE,
     use_market_prices |-> FALSE]

PlanOptions ==
    {o \in PlannerOptions : ~o.include_vegetables /\ ~o.include_crops_without_price}
    \cup {o \in PlannerOptions : /\ o.include_vegetables
                                 /\ o.include_crops_without_price
                                 /\ o.crop_group_filter = None
                                 /\ o.favorite_crops_filter = {}
                                 /\ o.allowed_groups = <<>>}
    \cup {OilCropsOnly}

\* plans start in the year after the last year a planting can be recorded for
PlanStartYears == {2022 + NumYears}

PlanForYears ==
    /\ pc = "idle"
    /\ \E field \in ScenarioFields, crops_dict \in Catalogs,
          start_year \in PlanStartYears, years \in Horizons, opts \in PlanOptions :
          \E hash_order \in HashOrders(crops_dict, opts) :
            /\ call' = [op |-> "plan_for_years", field |-> field,
                        history |-> list_plantings(plantings),
                        crops_dict |-> crops_dict, start_year |-> start_year,
                        years |-> years, opts |-> opts, hash_order |-> hash_order]
            /\ result' = plan_for_years(field, list_plantings(plantings), crops_dict,
                                        start_year, years, opts, Env, hash_order)
    /\ pc' = "done"
    /\ UNCHANGED <<plantings, prices_csv>>

PlanForYearsLookahead ==
    /\ pc = "idle"
    /\ \E field \in ScenarioFields, crops_dict \in Catalogs,
          start_year \in PlanStartYears, args \in LookaheadArgs, opts \in PlanOptions :
          \E hash_order \in HashOrders(crops_dict, opts) :
            /\ call' = [op |-> "plan_for_years_lookahead", field |-> field,
                        history |-> list_plantings(plantings),
                        crops_dict |-> crops_dict, start_year |-> start_year,
                        years |-> args[1], candidates |-> args[2], opts |-> opts,
                        hash_order |-> hash_order]
            /\ result' = plan_for_years_lookahead(field, list_plantings(plantings),
                                                  crops_dict, start_year, args[1],
                                                  args[2], opts, Env, hash_order)
    /\ pc' = "done"
    /\ UNCHANGED <<plantings, prices_csv>>

NextPlan ==
    \/ AddPlanting
    \/ PlanForYears
    \/ PlanForYearsLookahead
    \/ Return

SpecPlan == Init /\ [][NextPlan]_vars

GreedyDone == pc = "done" /\ call.op = "plan_for_years"

LookaheadDone == pc = "done" /\ call.op = "plan_for_years_lookahead"

\* the first-year recommendation of the lookahead call
CallFirstYear ==
    Recommend(call.field, call.history, call.crops_dict, call.start_year,
              WithMarketPrices(call.opts), Env, call.hash_order)

\* the first-year candidates the lookahead call evaluates, in top-K order
CallTopCandidates == TopCandidates(CallFirstYear, call.candidates)

\* simulated total profit over the horizon of the call when crop c is planted
\* in start_year, as listed in evaluated_candidates
CallSimulatedTotal(c) ==
    Round2(SimulatedTotal(call.field, call.history, call.crops_dict, call.start_year,
                          call.years, c, call.opts, Env, call.hash_order))

\* position of crop c in the first-year top-K list
TopRank(c) == CHOOSE i \in 1..Len(CallTopCandidates) : CallTopCandidates[i] = c

\* C14: the crop the lookahead plan plants in start_year is an evaluated
\* candidate; its simulated total is >= that of every other evaluated
\* candidate, and a candidate with the same total is ranked later in the
\* first-year top-K list.
C14_LookaheadPicksMaxTotal ==
    (LookaheadDone /\ CallFirstYear.best_crop # None) =>
        LET chosen == result.plan[1].crop
        IN  /\ chosen \in Range(CallTopCandidates)
            /\ result.plan[1].year = call.start_year
            /\ \A c \in Range(CallTopCandidates) \ {chosen} :
                  \/ RLt(CallSimulatedTotal(c), CallSimulatedTotal(chosen))
                  \/ /\ CallSimulatedTotal(c) = CallSimulatedTotal(chosen)
                     /\ TopRank(chosen) < TopRank(c)

\* witness of C14: the chosen crop is not the top-ranked first-year candidate
C14_Witness ==
    /\ LookaheadDone
    /\ CallFirstYear.best_crop # None
    /\ Len(CallTopCandidates) >= 2
    /\ result.plan[1].crop # CallTopCandidates[1]

\* the working history before the k-th year of the returned plan: the call's
\* history and one record for each earlier entry that has a crop
WorkingHistoryBefore(k) ==
    LET planted == SelectSeq(SubSeq(result.plan, 1, k - 1), LAMBDA e : e.crop # None)
    IN  call.history
        \o [i \in 1..Len(planted) |->
               PlantingRecord(call.field.id, planted[i].year, planted[i].crop)]

\* C16: plan_for_years returns N entries for the years start_year ..
\* start_year + N - 1 in increasing order; the crop of each entry is the best
\* crop recommended against the real history plus one record per earlier
\* entry that has a crop; an entry without a crop has profit 0 and adds no
\* record.
C16_GreedyPlanShape ==
    GreedyDone =>
        /\ Len(result.plan) = call.years
        /\ \A k \in 1..Len(result.plan) :
              /\ result.plan[k].year = call.start_year + k - 1
              /\ result.plan[k].crop =
                     Recommend(call.field, WorkingHistoryBefore(k), call.crops_dict,
                               call.start_year + k - 1, WithMarketPrices(call.opts),
                               Env, call.hash_order).best_crop
              /\ result.plan[k].crop = None =>
                     result.plan[k].profit = R(0) /\ result.plan[k].profit_per_ha = R(0)

\* witness of C16: a three-year plan whose second year has no crop
C16_Witness ==
    /\ GreedyDone
    /\ call.years = 3
    /\ result.plan[1].crop # None
    /\ result.plan[2].crop = None
    /\ result.plan[3].crop # None

\* C17: when the first-year recommendation has no best crop the lookahead
\* call returns the greedy plan computed with the same field, history,
\* horizon and filter settings, and the first entry of that plan has no crop
\* and profit 0.
C17_LookaheadFallsBackToGreedy ==
    (LookaheadDone /\ CallFirstYear.best_crop = None) =>
        /\ result = plan_for_years(call.field, call.history, call.crops_dict,
                                   call.start_year, call.years, call.opts, Env,
                                   call.hash_order)
        /\ result.plan[1].crop = None
        /\ result.plan[1].profit = R(0)

\* the years after the first of the simulation the call ran for the crop it
\* planted in start_year
CallWinnerPath ==
    PlanYears(call.field,
              Append(call.history,
                     PlantingRecord(call.field.id, call.start_year, result.plan[1].crop)),
              call.crops_dict, call.start_year + 1, call.years - 1,
              SimulationOpts(call.opts), Env, call.hash_order)

\* C22: the lookahead call evaluates min(K, number of first-year candidates)
\* crops, and they are the highest-ranked entries of the first-year
\* candidates list.
C22_EvaluatesTopK ==
    (LookaheadDone /\ CallFirstYear.best_crop # None) =>
        LET ranked == CallFirstYear.candidates
            n == IF call.candidates < Len(ranked) THEN call.candidates ELSE Len(ranked)
        IN  /\ Len(result.evaluated_candidates) = n
            /\ {result.evaluated_candidates[i].crop :
                    i \in 1..Len(result.evaluated_candidates)}
               = {ranked[i].name : i \in 1..n}

\* C21: the crop (or the null) of every later year of the lookahead plan is
\* the one the winning candidate's simulation chose for that year.
C21_FinalPlanIsWinnerPath ==
    (LookaheadDone /\ CallFirstYear.best_crop # None /\ call.years > 1) =>
        \A k \in 2..call.years :
            result.plan[k].crop = CallWinnerPath[k - 1].entry.crop

PlanDone == GreedyDone \/ LookaheadDone

\* C28: in a returned plan, greedy or lookahead, two entries for consecutive
\* years never carry the same crop, and two entries that both carry a
\* rapeseed variant are at least 4 years apart.
C28_PlanRespectsRotation ==
    PlanDone =>
        \A i, j \in 1..Len(result.plan) :
            LET a == result.plan[i]
                b == result.plan[j]
            IN  (a.crop # None /\ b.crop # None /\ a.year < b.year) =>
                    /\ b.year = a.year + 1 => a.crop # b.crop
                    /\ ({a.crop, b.crop} \subseteq Range(rapeseed_variants)) =>
                           b.year - a.year >= 4

\* a greedy plan as long as the rapeseed window that starts with a rapeseed
\* variant and has another crop in every later year
C28_Witness ==
    /\ GreedyDone
    /\ Len(result.plan) = DefaultYears + 1
    /\ result.plan[1].crop \in Range(rapeseed_variants)
    /\ \A k \in 2..Len(result.plan) :
          result.plan[k].crop \notin Range(rapeseed_variants) \cup {None}

\* the options of the recommend_for_field call that the planner makes for the
\* k-th year of the returned plan
CallYearOpts(k) ==
    IF GreedyDone THEN WithMarketPrices(call.opts)
    ELSE IF CallFirstYear.best_crop = None THEN WithMarketPrices(FallbackOpts(call.opts))
    ELSE IF k = 1 THEN WithMarketPrices(call.opts)
    ELSE FinalPlanOpts(call.opts)

\* the profit_total recommend_for_field reports for the crop of the k-th plan
\* entry in that year against the working history, None when the crop is not
\* among its candidates
CallYearReported(k) ==
    LET candidates == Recommend(call.field, WorkingHistoryBefore(k), call.crops_dict,
                                result.plan[k].year, CallYearOpts(k), Env,
                                call.hash_order).candidates
        at == {i \in 1..Len(candidates) : candidates[i].name = result.plan[k].crop}
    IN  IF at = {} THEN NoneR ELSE candidates[CHOOSE i \in at : TRUE].profit_total

\* C29: the profit of every plan entry with a crop is the profit_total that
\* recommend_for_field reports for that crop in that year against the working
\* history, and total_profit is the sum of the entries' profits.
C29_PlanProfitIsRecommendedProfit ==
    PlanDone =>
        /\ \A k \in 1..Len(result.plan) :
              result.plan[k].crop # None => result.plan[k].profit = CallYearReported(k)
        /\ result.total_profit =
              RSum([k \in 1..Len(result.plan) |-> result.plan[k].profit])

(***************************************************************************)
(* Specification SpecAlloc: a session in which the caller records          *)
(* plantings and asks for the allocation of all fields under area caps.    *)
(* The price table stays empty.                                            *)
(***************************************************************************)
ThirdField == FieldModel(3, R(5), "malaina", R(0), NoneR)

\* the lists of fields a request may carry
FieldLists ==
    UNION {{<<f1, f2>>, <<f2, f1, ThirdField>>} :
              f1 \in {f \in Fields : f.id = 1}, f2 \in {f \in Fields : f.id = 2}}

\* max_area_per_crop: no cap, one capped crop, several capped crops
AreaCaps ==
    {<<>>,
     [n \in {"Kviesi"} |-> R(12)],
     [n \in {"Kviesi"} |-> R(15)],
     [n \in {"Kviesi", "Rapsis", "Griki"} |-> R(10)]}

\* the group filter together with favourites from outside the group
FavoritesPlusLegumes ==
    [crop_group_filter |-> "Paksaugi", favorite_crops_filter |-> {"Zirni", "Kukuruza"},
     favorites_plus_group |-> TRUE, allowed_groups |-> <<>>,
     include_vegetables |-> FALSE, include_crops_without_price |-> FALSE,
     use_market_prices |-> TRUE]

AllocOptions ==
    {o \in Options : /\ ~o.include_crops_without_price
                     /\ o.use_market_prices = o.include_vegetables
                     /\ o.crop_group_filter \in {None, "Graudaugi"}
                     /\ o.allowed_groups = <<>>}
    \cup {FavoritesPlusLegumes}

\* app.py 1606-1608
HistoriesByField(fields, all_history) ==
    [id \in {fields[i].id : i \in 1..Len(fields)} |->
        SelectSeq(all_history, LAMBDA p : p.field_id = id)]

RecommendForAllFields ==
    /\ pc = "idle"
    /\ \E fields \in FieldLists, crops_dict \in Catalogs, target_year \in TargetYears,
          max_area_per_crop \in AreaCaps, opts \in AllocOptions :
          \E hash_order \in HashOrders(crops_dict, opts) :
            LET histories_by_field ==
                    HistoriesByField(fields, list_plantings(plantings))
            IN  /\ call' = [op |-> "recommend_for_all_fields_with_limits",
                            fields |-> fields,
                            histories_by_field |-> histories_by_field,
                            crops_dict |-> crops_dict, target_year |-> target_year,
                            max_area_per_crop |-> max_area_per_crop, opts |-> opts,
                            hash_order |-> hash_order]
                /\ result' = recommend_for_all_fields_with_limits(
                                 fields, histories_by_field, crops_dict, target_year,
                                 max_area_per_crop, opts, Env, hash_order)
    /\ pc' = "done"
    /\ UNCHANGED <<plantings, prices_csv>>

NextAlloc ==
    \/ AddPlanting
    \/ RecommendForAllFields
    \/ Return

SpecAlloc == Init /\ [][NextAlloc]_vars

AllocDone == pc = "done" /\ call.op = "recommend_for_all_fields_with_limits"

\* the field of the call a result entry is about
CallField(field_id) ==
    CHOOSE f \in Range(call.fields) : f.id = field_id

\* the ranked candidates of a field of the call
CallFieldCandidates(field_id) ==
    AllocCandidates(CallField(field_id), call.histories_by_field[field_id],
                    call.crops_dict, call.target_year, call.opts, Env, call.hash_order)

\* the area given to crop_name by the first n entries of the result
AssignedArea(crop_name, n) ==
    RSum([i \in 1..n |-> IF result[i].chosen_crop = crop_name
                         THEN CallField(result[i].field_id).area_ha
                         ELSE R(0)])

\* the i-th field, at its turn, would push crop_name over its cap
OverCap(crop_name, i) ==
    /\ crop_name \in DOMAIN call.max_area_per_crop
    /\ RGt(RAdd(AssignedArea(crop_name, i - 1), CallField(result[i].field_id).area_ha),
           call.max_area_per_crop[crop_name])

\* C15: the area assigned to a capped crop stays within the cap unless a
\* field assigned that crop carries a warning; a field carries a warning
\* only when none of its candidates fitted at its turn, and it then has its
\* top-ranked candidate; a field with a candidate is always assigned a crop.
C15_CapsRespectedOrWarned ==
    AllocDone =>
        /\ Len(result) = Len(call.fields)
        /\ \A crop_name \in DOMAIN call.max_area_per_crop :
              \/ RLe(AssignedArea(crop_name, Len(result)),
                     call.max_area_per_crop[crop_name])
              \/ \E i \in 1..Len(result) : /\ result[i].chosen_crop = crop_name
                                           /\ result[i].warnings # <<>>
        /\ \A i \in 1..Len(result) :
              LET candidates == CallFieldCandidates(result[i].field_id)
              IN  /\ result[i].warnings # <<>> =>
                        /\ candidates # <<>>
                        /\ result[i].chosen_crop = candidates[1].name
                        /\ \A k \in 1..Len(candidates) : OverCap(candidates[k].name, i)
                  /\ candidates # <<>> => result[i].chosen_crop # None

\* one field was forced over a cap while another field took a capped crop
\* within its cap
C15_Witness ==
    /\ AllocDone
    /\ \E i \in 1..Len(result) : result[i].warnings # <<>>
    /\ \E j \in 1..Len(result) : /\ result[j].warnings = <<>>
                                 /\ result[j].chosen_crop \in DOMAIN call.max_area_per_crop

\* C20: no field is assigned a crop that has no sow months or that the
\* sanity check hard-excludes on the field's soil.
C20_NoUnsowableOrInsaneCrop ==
    AllocDone =>
        \A i \in 1..Len(result) :
            result[i].chosen_crop # None =>
                LET crop == Lookup(call.crops_dict, result[i].chosen_crop)
                    warnings == Range(validate_crop_numbers(
                                          crop, CallField(result[i].field_id).soil))
                IN  /\ crop.sow_months # <<>>
                    /\ "yield_too_high" \notin warnings
                    /\ "price_too_high" \notin warnings

\* the candidates recommend_for_field returns for a field of the call with
\* the call's target year and filter settings
CallFieldRecommended(field_id) ==
    Recommend(CallField(field_id), call.histories_by_field[field_id], call.crops_dict,
              call.target_year, call.opts, Env, call.hash_order).candidates

\* C23: for each field the allocator's ranked candidates are the candidates
\* of recommend_for_field: the same crops in the same order with the same
\* profit_total (to the cent).
C23_AllocatorUsesRecommendCandidates ==
    AllocDone =>
        \A i \in 1..Len(result) :
            LET allocated == CallFieldCandidates(result[i].field_id)
                recommended == CallFieldRecommended(result[i].field_id)
            IN  /\ Len(allocated) = Len(recommended)
                /\ \A k \in 1..Len(allocated) :
                      /\ allocated[k].name = recommended[k].name
                      /\ Round2(allocated[k].profit_total) = recommended[k].profit_total

\* best minus second-best profit of a field of the call
CallDifficulty(field_id) ==
    LET candidates == CallFieldCandidates(field_id)
    IN  IF Len(candidates) >= 2
        THEN RSub(candidates[1].profit_total, candidates[2].profit_total)
        ELSE IF Len(candidates) = 1 THEN R(0)
        ELSE Infinity

\* position of a field in the fields argument of the call
InputIndex(field_id) ==
    CHOOSE i \in 1..Len(call.fields) : call.fields[i].id = field_id

\* C24: the result lists the fields in ascending difficulty, fields of equal
\* difficulty in input order; each field gets the first of its ranked
\* candidates that fits under its cap given the area of the fields processed
\* before it, or its top candidate when none fits.
C24_AscendingDifficultyOrder ==
    AllocDone =>
        /\ \A i, j \in 1..Len(result) :
              i < j =>
                  LET a == CallDifficulty(result[i].field_id)
                      b == CallDifficulty(result[j].field_id)
                  IN  \/ a # Infinity /\ (b = Infinity \/ RLt(a, b))
                      \/ /\ a = b
                         /\ InputIndex(result[i].field_id) < InputIndex(result[j].field_id)
        /\ \A i \in 1..Len(result) :
              LET candidates == CallFieldCandidates(result[i].field_id)
                  fits == {k \in 1..Len(candidates) : ~OverCap(candidates[k].name, i)}
              IN  candidates # <<>> =>
                      result[i].chosen_crop =
                          IF fits = {} THEN candidates[1].name
                          ELSE candidates[CHOOSE k \in fits : \A m \in fits : k <= m].name

\* the fields were processed in another order than given, and a field got
\* a lower-ranked candidate because an earlier field used up the cap
C24_Witness ==
    /\ AllocDone
    /\ \E i \in 1..Len(result) : result[i].field_id # call.fields[i].id
    /\ \E i \in 1..Len(result) :
          LET candidates == CallFieldCandidates(result[i].field_id)
          IN  /\ candidates # <<>>
              /\ result[i].chosen_crop # candidates[1].name
              /\ AssignedArea(candidates[1].name, i - 1) # R(0)


====
